---- MODULE Spec2Model ----
(***************************************************************************)
(* Verification model of the telcoin-network worker block pipeline and the *)
(* primary's voting path.                                                  *)
(*                                                                         *)
(*  SpecBuild    : build_worker_block / build_batch over a pending pool,   *)
(*                 followed by validate_block of the built block.          *)
(*  SpecValidate : validate_block over peer-proposed worker blocks.        *)
(*  SpecVote     : the primary's RequestVote endpoint behind its inflight  *)
(*                 limit.                                                  *)
(*  SpecCertify  : the Certifier's aggregation of votes into a certificate.*)
(*  SpecOrder    : two nodes ranking authorities by reputation and picking *)
(*                 leaders from the same committed certificates.           *)
(***************************************************************************)
EXTENDS Integers, Sequences, FiniteSets, TLC

\* ------------------------------------------------------------------------
\* Bounds of the model
\* ------------------------------------------------------------------------
MaxPool == 3        \* pending transactions in the pool
MaxBlobTx == 1      \* EIP-4844 transactions in the pool
GasCap == 2         \* configured gas cap of a worker block
SizeCap == 3        \* configured byte cap of a worker block
MaxNow == 2         \* largest wall-clock reading

VARIABLES
    pool,                \* Seq of pending transactions, position = priority
    iter,                \* which BestTransactions implementation is pulled from
    builder,             \* "block" (build_worker_block) or "batch" (build_batch)
    independent,         \* BestTransactions.independent (indices into pool)
    invalid,             \* BestTransactions.invalid (indices into pool)
    total_possible_gas,  \* accumulated declared gas of the build
    total_bytes_size,    \* accumulated encoded size of the build
    transactions,        \* indices of the transactions put in the block so far
    yielded,             \* every index best_txs.next() returned, in order
    marked,              \* every index the builder passed to mark_invalid, in order
    pc,                  \* position of the build / validation
    block,               \* <<>> or <<the worker block at hand>>
    tampers,             \* header fields the peer set away from the honest value
    result,              \* <<>> or <<the BlockValidationResult>>
    inflight,            \* per peer: the RequestVote calls being processed
    vote_store,          \* Votes table: per author <<>> or <<the last VoteInfo>>
    signed,              \* every vote this authority has signed
    replies,             \* the answers given to RequestVote calls, in order
    committee,           \* stake of every authority
    accepted,            \* voters whose vote the Certifier has accepted
    weight,              \* stake the Certifier has aggregated
    votes_received,         \* every vote handed to the Certifier, in order
    certificate,         \* <<>> or <<the certificate formed>>
    dagset,              \* the certificates both nodes are going to ingest
    nodes,               \* per node: its DAG, first arrival, commits and scores
    sent,                \* number of ConsensusOutputs sent on the broadcast channel
    cursor,              \* sequence number the engine's receiver reads next
    lagged,              \* outputs the receiver was told it has missed
    delivered,           \* sequence numbers handed to the engine, in order
    engine,              \* "running" or "stopped"
    output_batches,      \* per committed sub-dag: the number of batches in its output
    exec,                \* the call of execute_consensus_output in progress
    exec_pc,             \* where the executor stands
    tree,                \* blocks inserted into the tree, not yet canonical (in memory)
    chain_db,            \* canonical blocks in the database
    db_finalized,        \* last finalized block number in the database
    tracker,             \* in-memory chain info: canonical head, finalized, safe
    completed,           \* index of the last sub-dag whose execution returned Ok
    restarts,            \* restarts of the node
    redeliver_from,      \* <<>> or <<sub-dag index consensus re-delivers from>>
    node_mode,           \* the node mode on the consensus bus
    mode_at_spawn,       \* <<>> or <<the mode Primary::spawn read>>
    peer_types,          \* TRUE while Primary.peer_types is Some
    tasks,               \* the tasks spawned, in order
    primary_pc,          \* "new", "spawned" or "panicked"
    headers_emitted,     \* headers the Proposer has sent to the Certifier
    authorized_publishers, \* ConsensusNetwork.authorized_publishers
    event_stream,        \* events forwarded to the handler, not yet taken
    net_status,          \* "running", or "failed" once run() returned an error
    last_gossip,         \* <<>> or <<how the last gossip message was processed>>
    next_request_id,     \* OutboundRequestId the swarm hands out next
    swarm_outstanding,   \* request ids the swarm has not yet reported on
    pending_requests,    \* ConsensusNetwork.pending_requests: request id -> reply channel
    request_reply,       \* per request id: the reply channel its SendRequest carried
    reply_state,         \* per reply channel: what its caller sees
    reply_values,        \* per reply channel: the responses sent into it
    removed_publishers,  \* peers an UpdateAuthorizedPublishers command has removed
    node_calls,          \* calls of WorkerNode::start and ::shutdown, in the order issued
    internal_lock,       \* 0 or the call that holds the write lock of WorkerNode.internal
    handles,             \* 0 or the start call whose task handles WorkerNodeInner.handles holds
    tx_shutdown,         \* 0 (None) or the start call whose Notifier WorkerNodeInner.tx_shutdown holds
    worker_tasks,        \* per start call: the state of each task its worker.spawn started
    notified,            \* start calls whose tasks were sent the shutdown signal
    provider_blocks,     \* blocks the builder handed to the block provider, with where each stands
    worker_blocks,       \* the WorkerBlocks table: digest -> block
    quorum_acked,        \* blocks the quorum waiter has acknowledged
    builder_acked,       \* blocks acknowledged to the builder, in order
    clock_reading,       \* the clock reading the builder takes
    parent_timestamp_read, \* the timestamp of the parent the builder builds on
    stamped,             \* <<>> or <<the builder that ran and the timestamp of what it built>>
    scores_per_authority, \* ReputationScores.scores_per_authority
    table,               \* TestTable as its readers see it: entries in key order
    txn_status,          \* the write transaction: none, open, committed or dropped
    txn_writes,          \* what the write transaction did to each key
    txn_base,            \* the table when the write transaction began
    last_read,           \* the latest read call and what it returned
    latest_header,       \* provider.latest_header(): the canonical tip, sealed
    best_block,          \* StorageInner.best_block
    best_hash,           \* StorageInner.best_hash
    storage_headers,     \* StorageInner.headers
    new_header,          \* the SealedHeader build_and_execute returned last
    task_exit,           \* how the task of ConsensusNetwork::run stands: running, Err or panicked
    exit_cause,          \* what the task was processing when it ended
    pending_dials,       \* ConsensusNetwork.pending_dials: the peers with a dial under way
    handles_alive,       \* NetworkHandle clones the callers still hold
    events_queued,       \* events in the event stream the handler has not taken
    receivers,           \* per request, the state of the caller's reply receiver
    wait_calls,          \* the calls of WorkerNode::wait, each with its position
    payload_args,        \* BuildArguments of the running call: parent_header and the output's batches
    canonical_header,    \* the local canonical_header of execute_consensus_output
    block_index,         \* position of the loop over the output's batches
    tree_blocks,         \* blocks handed to provider.insert_block, in order
    chain_info,          \* canonical tip and the tracked head, safe and finalized headers
    payload_pc,          \* position of the call
    payload_returned,    \* what the last call returned
    payload_calls,       \* calls of execute_consensus_output so far
    tries,               \* the counter `tries` of Primary::start_network
    bind_attempts,       \* calls of anemo::Network::bind(..).start(..) so far
    bind_errors,         \* the errors the failed attempts returned, in order
    bind_pc              \* position of start_network

workerVars == <<pool, iter, builder, independent, invalid, total_possible_gas,
                total_bytes_size, transactions, yielded, marked, pc, block, tampers,
                result>>

voteVars == <<inflight, vote_store, signed, replies>>

certVars == <<committee, accepted, weight, votes_received, certificate>>

orderVars == <<dagset, nodes>>

deliverVars == <<sent, cursor, lagged, delivered, engine>>

spawnVars == <<node_mode, mode_at_spawn, peer_types, tasks, primary_pc, headers_emitted>>

execVars == <<output_batches, exec, exec_pc, tree, chain_db, db_finalized, tracker,
              completed, restarts, redeliver_from>>

netVars == <<authorized_publishers, event_stream, net_status, last_gossip,
             next_request_id, swarm_outstanding, pending_requests, request_reply,
             reply_state, reply_values, removed_publishers>>

nodeVars == <<node_calls, internal_lock, handles, tx_shutdown, worker_tasks, notified>>

provideVars == <<provider_blocks, worker_blocks, quorum_acked, builder_acked>>

stampVars == <<clock_reading, parent_timestamp_read, stamped>>

scoreVars == <<scores_per_authority>>

storeVars == <<table, txn_status, txn_writes, txn_base, last_read>>

sealVars == <<latest_header, best_block, best_hash, storage_headers, new_header>>

loopVars == <<task_exit, exit_cause, pending_dials, handles_alive, events_queued, receivers>>

waitVars == <<wait_calls>>

payloadVars == <<payload_args, canonical_header, block_index, tree_blocks, chain_info, payload_pc, payload_returned, payload_calls>>

bindVars == <<tries, bind_attempts, bind_errors, bind_pc>>

vars == <<workerVars, voteVars, certVars, orderVars, deliverVars, execVars, spawnVars, netVars, nodeVars, provideVars, stampVars, scoreVars, storeVars, sealVars, loopVars, waitVars, payloadVars, bindVars>>

\* what the worker's actions leave alone
primaryVars == <<voteVars, certVars, orderVars, deliverVars, execVars, spawnVars, netVars, nodeVars, provideVars, stampVars, scoreVars, storeVars, sealVars, loopVars, waitVars, payloadVars, bindVars>>

\* what the actions of the other components leave alone
voteRest == <<workerVars, certVars, orderVars, deliverVars, execVars, spawnVars, netVars, nodeVars, provideVars, stampVars, scoreVars, storeVars, sealVars, loopVars, waitVars, payloadVars, bindVars>>

certRest == <<workerVars, voteVars, orderVars, deliverVars, execVars, spawnVars, netVars, nodeVars, provideVars, stampVars, scoreVars, storeVars, sealVars, loopVars, waitVars, payloadVars, bindVars>>

orderRest == <<workerVars, voteVars, certVars, deliverVars, execVars, spawnVars, netVars, nodeVars, provideVars, stampVars, scoreVars, storeVars, sealVars, loopVars, waitVars, payloadVars, bindVars>>

deliverRest == <<workerVars, voteVars, certVars, orderVars, execVars, spawnVars, netVars, nodeVars, provideVars, stampVars, scoreVars, storeVars, sealVars, loopVars, waitVars, payloadVars, bindVars>>

execRest == <<workerVars, voteVars, certVars, orderVars, deliverVars, spawnVars, netVars, nodeVars, provideVars, stampVars, scoreVars, storeVars, sealVars, loopVars, waitVars, payloadVars, bindVars>>

spawnRest == <<workerVars, voteVars, certVars, orderVars, deliverVars, execVars, netVars, nodeVars, provideVars, stampVars, scoreVars, storeVars, sealVars, loopVars, waitVars, payloadVars, bindVars>>

netRest == <<workerVars, voteVars, certVars, orderVars, deliverVars, execVars, spawnVars, nodeVars, provideVars, stampVars, scoreVars, storeVars, sealVars, loopVars, waitVars, payloadVars, bindVars>>

nodeRest == <<workerVars, voteVars, certVars, orderVars, deliverVars, execVars, spawnVars, netVars, provideVars, stampVars, scoreVars, storeVars, sealVars, loopVars, waitVars, payloadVars, bindVars>>

\* what the calls of wait, which take the node's lock, leave alone
nodeWaitRest == <<workerVars, voteVars, certVars, orderVars, deliverVars, execVars, spawnVars, netVars, provideVars, stampVars, scoreVars, storeVars, sealVars, loopVars, payloadVars, bindVars>>

provideRest == <<workerVars, voteVars, certVars, orderVars, deliverVars, execVars, spawnVars, netVars, nodeVars, stampVars, scoreVars, storeVars, sealVars, loopVars, waitVars, payloadVars, bindVars>>

stampRest == <<workerVars, voteVars, certVars, orderVars, deliverVars, execVars, spawnVars, netVars, nodeVars, provideVars, scoreVars, storeVars, sealVars, loopVars, waitVars, payloadVars, bindVars>>

scoreRest == <<workerVars, voteVars, certVars, orderVars, deliverVars, execVars, spawnVars, netVars, nodeVars, provideVars, stampVars, storeVars, sealVars, loopVars, waitVars, payloadVars, bindVars>>

storeRest == <<workerVars, voteVars, certVars, orderVars, deliverVars, execVars, spawnVars, netVars, nodeVars, provideVars, stampVars, scoreVars, sealVars, loopVars, waitVars, payloadVars, bindVars>>

sealRest == <<workerVars, voteVars, certVars, orderVars, deliverVars, execVars, spawnVars, netVars, nodeVars, provideVars, stampVars, scoreVars, storeVars, loopVars, waitVars, payloadVars, bindVars>>

loopRest == <<workerVars, voteVars, certVars, orderVars, deliverVars, execVars, spawnVars, netVars, nodeVars, provideVars, stampVars, scoreVars, storeVars, sealVars, waitVars, payloadVars, bindVars>>

waitRest == <<workerVars, voteVars, certVars, orderVars, deliverVars, execVars, spawnVars, netVars, nodeVars, provideVars, stampVars, scoreVars, storeVars, sealVars, loopVars, payloadVars, bindVars>>

payloadRest == <<workerVars, voteVars, certVars, orderVars, deliverVars, execVars, spawnVars, netVars, nodeVars, provideVars, stampVars, scoreVars, storeVars, sealVars, loopVars, waitVars, bindVars>>

bindRest == <<workerVars, voteVars, certVars, orderVars, deliverVars, execVars, spawnVars, netVars, nodeVars, provideVars, stampVars, scoreVars, storeVars, sealVars, loopVars, waitVars, payloadVars>>

buildVars == <<pool, iter, builder, independent, invalid, total_possible_gas,
               total_bytes_size, transactions, yielded, marked, tampers>>

\* ------------------------------------------------------------------------
\* Helpers
\* ------------------------------------------------------------------------
RECURSIVE SumSeq(_)
SumSeq(s) == IF s = <<>> THEN 0 ELSE Head(s) + SumSeq(Tail(s))

Range(s) == {s[i] : i \in 1..Len(s)}

Count(s, x) == Cardinality({i \in 1..Len(s) : s[i] = x})

\* ------------------------------------------------------------------------
\* Committee, peers, and the components' states before they have done anything
\* ------------------------------------------------------------------------
Authorities == 1..4     \* committee of N = 3f + 1 with f = 1

Peers == 1..2           \* primaries that send RequestVote to this one

Nodes == 1..2           \* correct nodes running the DAG orderer

EqualStake == [a \in Authorities |-> 1]

RECURSIVE StakeOf(_, _)
\* stake held by a set of authorities
StakeOf(c, voters) ==
    IF voters = {} THEN 0
    ELSE LET a == CHOOSE x \in voters : TRUE
         IN c[a] + StakeOf(c, voters \ {a})

TotalStake(c) == StakeOf(c, DOMAIN c)

\* "quorum threshold (>= 2f+1 by stake)"
QuorumThreshold(c) == (2 * TotalStake(c)) \div 3 + 1

\* ReputationScores::new
ReputationScoresNew(c) == [a \in DOMAIN c |-> 0]

NewNode == [dag |-> {}, first |-> <<>>, committed |-> <<>>,
            scores |-> ReputationScoresNew(EqualStake), last_round |-> 0]

WorkerIdle ==
    /\ pool = <<>>
    /\ iter = "pool"
    /\ builder = "block"
    /\ independent = <<>>
    /\ invalid = {}
    /\ total_possible_gas = 0
    /\ total_bytes_size = 0
    /\ transactions = <<>>
    /\ yielded = <<>>
    /\ marked = <<>>
    /\ pc = "idle"
    /\ block = <<>>
    /\ tampers = 0
    /\ result = <<>>

VoteIdle ==
    /\ inflight = [p \in Peers |-> {}]
    /\ vote_store = [a \in Peers |-> <<>>]
    /\ signed = {}
    /\ replies = <<>>

CertifierIdle ==
    /\ committee = EqualStake
    /\ accepted = {}
    /\ weight = 0
    /\ votes_received = <<>>
    /\ certificate = <<>>

OrderIdle ==
    /\ dagset = {}
    /\ nodes = [n \in Nodes |-> NewNode]

DeliverIdle ==
    /\ sent = 0
    /\ cursor = 1
    /\ lagged = 0
    /\ delivered = <<>>
    /\ engine = "running"

NoCall == [output |-> 0, batch |-> 0, before |-> 0]

ExecIdle ==
    /\ output_batches = <<>>
    /\ exec = NoCall
    /\ exec_pc = "idle"
    /\ tree = <<>>
    /\ chain_db = <<>>
    /\ db_finalized = 0
    /\ tracker = [head |-> 0, finalized |-> 0, safe |-> 0]
    /\ completed = 0
    /\ restarts = 0
    /\ redeliver_from = <<>>

SpawnIdle ==
    /\ node_mode = "CvvActive"
    /\ mode_at_spawn = <<>>
    /\ peer_types = TRUE
    /\ tasks = <<>>
    /\ primary_pc = "new"
    /\ headers_emitted = 0

MaxNetRequests == 2     \* SendRequest commands the callers issue

\* OutboundRequestId values the swarm hands out
RequestIds == 1..MaxNetRequests

\* the oneshot channels the callers create, one per SendRequest
ReplyChannels == 1..MaxNetRequests

NetIdle ==
    /\ authorized_publishers = {}
    /\ event_stream = <<>>
    /\ net_status = "running"
    /\ last_gossip = <<>>
    /\ next_request_id = 1
    /\ swarm_outstanding = {}
    /\ pending_requests = {}
    /\ request_reply = {}
    /\ reply_state = [c \in ReplyChannels |-> "unused"]
    /\ reply_values = [c \in ReplyChannels |-> <<>>]
    /\ removed_publishers = {}

MaxNodeCalls == 2     \* calls of start and shutdown on one WorkerNode
\* the task handles Worker::spawn returns
WorkerTasks == {"task1", "task2"}

NodeCallIds == 1..MaxNodeCalls

NoTasks == [c \in NodeCallIds |-> [t \in WorkerTasks |-> "none"]]

NodeIdle ==
    /\ node_calls = <<>>
    /\ internal_lock = 0
    /\ handles = 0
    /\ tx_shutdown = 0
    /\ worker_tasks = NoTasks
    /\ notified = {}

ProvideIdle ==
    /\ provider_blocks = <<>>
    /\ worker_blocks = {}
    /\ quorum_acked = {}
    /\ builder_acked = <<>>

StampIdle ==
    /\ clock_reading = 0
    /\ parent_timestamp_read = 0
    /\ stamped = <<>>

ScoreIdle == scores_per_authority = [a \in {} |-> 0]

MaxKey == 2     \* keys of TestTable are 0..MaxKey

NoRead == [op |-> "none"]

Untouched == "untouched"

StoreKeys == 0..MaxKey

StoreIdle ==
    /\ table = <<>>
    /\ txn_status = "none"
    /\ txn_writes = [k \in StoreKeys |-> Untouched]
    /\ txn_base = <<>>
    /\ last_read = NoRead

NoHeader == [number |-> -1]

SealIdle ==
    /\ latest_header = NoHeader
    /\ best_block = 0
    /\ best_hash = 0
    /\ storage_headers = <<>>
    /\ new_header = NoHeader

LoopIdle ==
    /\ task_exit = "running"
    /\ exit_cause = "none"
    /\ pending_dials = {}
    /\ handles_alive = 0
    /\ events_queued = 0
    /\ receivers = [r \in RequestIds |-> "unused"]

MaxWaitCalls == 1     \* calls of wait on one WorkerNode

WaitIdle == wait_calls = <<>>

MaxPayloadCalls == 2      \* calls of execute_consensus_output
MaxPayloadBatches == 2    \* batches in the ConsensusOutput of a call
MaxParentNumber == 1      \* number of the block the first call builds on

PayloadIdle ==
    /\ payload_args = <<>>
    /\ canonical_header = <<>>
    /\ block_index = 0
    /\ tree_blocks = <<>>
    /\ chain_info = <<>>
    /\ payload_pc = "idle"
    /\ payload_returned = <<>>
    /\ payload_calls = 0

BindIdle ==
    /\ tries = 0
    /\ bind_attempts = 0
    /\ bind_errors = <<>>
    /\ bind_pc = "idle"

\* every component but the one under study is idle
IdleExcept(component) ==
    /\ IF component = "worker" THEN TRUE ELSE WorkerIdle
    /\ IF component = "vote" THEN TRUE ELSE VoteIdle
    /\ IF component = "certifier" THEN TRUE ELSE CertifierIdle
    /\ IF component = "order" THEN TRUE ELSE OrderIdle
    /\ IF component = "deliver" THEN TRUE ELSE DeliverIdle
    /\ IF component = "execute" THEN TRUE ELSE ExecIdle
    /\ IF component = "spawn" THEN TRUE ELSE SpawnIdle
    /\ IF component = "net" THEN TRUE ELSE NetIdle
    /\ IF component = "node" THEN TRUE ELSE NodeIdle
    /\ IF component = "provide" THEN TRUE ELSE ProvideIdle
    /\ IF component = "stamp" THEN TRUE ELSE StampIdle
    /\ IF component = "score" THEN TRUE ELSE ScoreIdle
    /\ IF component = "store" THEN TRUE ELSE StoreIdle
    /\ IF component = "seal" THEN TRUE ELSE SealIdle
    /\ IF component = "loop" THEN TRUE ELSE LoopIdle
    /\ IF component = "wait" THEN TRUE ELSE WaitIdle
    /\ IF component = "payload" THEN TRUE ELSE PayloadIdle
    /\ IF component = "bind" THEN TRUE ELSE BindIdle


\* ------------------------------------------------------------------------
\* The local chain: header-by-hash lookup of the blockchain provider
\* ------------------------------------------------------------------------
Chain == [h \in {"h0", "h1"} |->
            IF h = "h0" THEN [number |-> 0, timestamp |-> 0]
                        ELSE [number |-> 1, timestamp |-> 1]]

UnknownHash == "hX"

\* ------------------------------------------------------------------------
\* Transactions and pools
\* ------------------------------------------------------------------------
Senders == 1..2      \* senders with pending transactions
TxGas == 1..3        \* declared gas limits: below, at and above GasCap
TxSize == 1..2       \* encoded sizes

\* A pending pool is gapless: the transactions of a sender carry the nonces
\* 0, 1, 2, ... in the order they sit in the pool.
NextNonce(p, s) == Cardinality({j \in 1..Len(p) : p[j].sender = s})

Blobs(p) == Cardinality({i \in 1..Len(p) : p[i].blob})

\* Senders are interchangeable: sender s + 1 appears only after sender s.
NextSenders(p) == {s \in Senders : s = 1 \/ NextNonce(p, s - 1) > 0}

\* Every iterator skips EIP-4844 transactions before the builder reads their
\* gas limit or size, so one gas/size pair stands for all of them.
Extensions(p) ==
    {Append(p, [sender |-> s, nonce |-> NextNonce(p, s), gas |-> g, size |-> z,
                blob |-> FALSE]) : s \in NextSenders(p), g \in TxGas, z \in TxSize}
    \cup
    {Append(p, [sender |-> s, nonce |-> NextNonce(p, s), gas |-> 1, size |-> 1,
                blob |-> TRUE]) : s \in {t \in NextSenders(p) : Blobs(p) < MaxBlobTx}}

RECURSIVE PoolsOfLen(_)
PoolsOfLen(k) ==
    IF k = 0 THEN {<<>>} ELSE UNION {Extensions(p) : p \in PoolsOfLen(k - 1)}

Pools == UNION {PoolsOfLen(k) : k \in 0..MaxPool}

\* the transaction is taken for its own descendant
DescendantIsSelf(p, i) == i

\* TransactionId::descendant looked up in `all`: index of the same sender's
\* transaction with the next nonce, 0 when there is none.
Descendant(p, i) ==
    LET d == {j \in 1..Len(p) : p[j].sender = p[i].sender /\ p[j].nonce = p[i].nonce + 1}
    IN IF d = {} THEN 0 ELSE CHOOSE j \in d : TRUE

\* TransactionId::unchecked_ancestor looked up in `by_id`.
Ancestor(p, i) ==
    LET a == {j \in 1..Len(p) : p[j].sender = p[i].sender /\ p[j].nonce + 1 = p[i].nonce}
    IN IF a = {} THEN 0 ELSE CHOOSE j \in a : TRUE

Descendants(p, i) ==
    {j \in 1..Len(p) : p[j].sender = p[i].sender /\ p[j].nonce > p[i].nonce}

\* TestPool::best_transactions: the transactions without an ancestor, in pool order.
RECURSIVE InitialIndependent(_, _)
InitialIndependent(p, i) ==
    IF i > Len(p) THEN <<>>
    ELSE IF Ancestor(p, i) = 0 THEN <<i>> \o InitialIndependent(p, i + 1)
         ELSE InitialIndependent(p, i + 1)

\* ------------------------------------------------------------------------
\* BestTransactions iterators.  Each `next` returns
\*   [tx |-> yielded index (0 for None), ind, inv, hang |-> the call never returns]
\* ------------------------------------------------------------------------
SkipBlobs == TRUE

Yield(i, ind, inv) == [tx |-> i, ind |-> ind, inv |-> inv, hang |-> FALSE]

Hang(ind, inv) == [tx |-> 0, ind |-> ind, inv |-> inv, hang |-> TRUE]

\* batch-builder test_utils: `independent` is a VecDeque, the front is popped.
RECURSIVE BatchTestNext(_, _, _)
BatchTestNext(p, ind, inv) ==
    IF ind = <<>> THEN Yield(0, ind, inv)
    ELSE LET best == Head(ind)
             rest == Tail(ind)
             d == Descendant(p, best)
             unlocked == IF d # 0 THEN Append(rest, d) ELSE rest
         IN IF best \in inv THEN BatchTestNext(p, rest, inv)
            ELSE IF SkipBlobs /\ p[best].blob
                 THEN BatchTestNext(p, unlocked, inv \cup {best})
                 ELSE Yield(best, unlocked, inv)

\* block-builder test_utils: `independent` is a Vec read with first(), which
\* leaves the element in place.  `continue` on an invalid first element
\* re-enters the loop in the same state: the call never returns.
RECURSIVE BlockTestNext(_, _, _)
BlockTestNext(p, ind, inv) ==
    IF ind = <<>> THEN Yield(0, ind, inv)
    ELSE LET best == Head(ind)
             d == Descendant(p, best)
             unlocked == IF d # 0 THEN Append(ind, d) ELSE ind
         IN IF best \in inv THEN Hang(ind, inv)
            ELSE IF SkipBlobs /\ p[best].blob
                 THEN BlockTestNext(p, unlocked, inv \cup {best})
                 ELSE Yield(best, unlocked, inv)

\* The transaction pool proper: the best (first in priority) independent
\* transaction is removed and its descendant unlocked; a transaction marked
\* invalid takes its dependents with it.
RECURSIVE InsertSorted(_, _)
InsertSorted(ind, i) ==
    IF ind = <<>> THEN <<i>>
    ELSE IF i < Head(ind) THEN <<i>> \o ind
         ELSE <<Head(ind)>> \o InsertSorted(Tail(ind), i)

RECURSIVE PoolNext(_, _, _)
PoolNext(p, ind, inv) ==
    IF ind = <<>> THEN Yield(0, ind, inv)
    ELSE LET best == Head(ind)
             rest == Tail(ind)
             d == Descendant(p, best)
             unlocked == IF d # 0 THEN InsertSorted(rest, d) ELSE rest
         IN IF best \in inv THEN PoolNext(p, rest, inv)
            ELSE IF SkipBlobs /\ p[best].blob
                 THEN PoolNext(p, rest, inv \cup {best} \cup Descendants(p, best))
                 ELSE Yield(best, unlocked, inv)

BestNext(kind, p, ind, inv) ==
    IF kind = "batch_test" THEN BatchTestNext(p, ind, inv)
    ELSE IF kind = "block_test" THEN BlockTestNext(p, ind, inv)
    ELSE PoolNext(p, ind, inv)

\* BestTestTransactions::mark_invalid records the hash of the one transaction.
TestMarkInvalid(p, inv, i) == inv \cup {i}

\* The pool's mark_invalid: the transaction and its dependents.
PoolMarkInvalid(p, inv, i) == inv \cup {i} \cup Descendants(p, i)

MarkInvalid(kind, p, inv, i) ==
    IF kind = "pool" THEN PoolMarkInvalid(p, inv, i) ELSE TestMarkInvalid(p, inv, i)

\* ------------------------------------------------------------------------
\* Headers, hashes and roots
\* ------------------------------------------------------------------------
\* Header fields whose only honest value is the empty / zero sentinel; the
\* model writes 0 for the sentinel and 1 for any other value.
SentinelFields == <<"ommers_hash", "state_root", "receipts_root", "withdrawals_root",
                    "logs_bloom", "mix_hash", "nonce", "difficulty",
                    "parent_beacon_block_root", "blob_gas_used", "excess_blob_gas",
                    "requests_root">>

\* Header::hash_slow: a collision-free digest of every header field.
HashSlow(h) == [digest_of |-> h]

\* Header::seal_slow
SealSlow(h) == [header |-> h, hash |-> HashSlow(h)]

\* proofs::calculate_transaction_root: a collision-free digest of the list.
CalculateTransactionRoot(txs) == [root_of |-> txs]

NewHeader(parent_hash, number, timestamp, gas_limit, gas_used, root) ==
    [parent_hash |-> parent_hash, ommers_hash |-> 0, beneficiary |-> 0,
     state_root |-> 0, transactions_root |-> root, receipts_root |-> 0,
     withdrawals_root |-> 0, logs_bloom |-> 0, timestamp |-> timestamp,
     mix_hash |-> 0, nonce |-> 0, base_fee_per_gas |-> 7, number |-> number,
     gas_limit |-> gas_limit, difficulty |-> 0, gas_used |-> gas_used,
     extra_data |-> 0, parent_beacon_block_root |-> 0, blob_gas_used |-> 0,
     excess_blob_gas |-> 0, requests_root |-> 0]

TxsOf(p, idx) == [k \in 1..Len(idx) |-> p[idx[k]]]

GasOf(txs) == SumSeq([k \in 1..Len(txs) |-> txs[k].gas])

SizeOf(txs) == SumSeq([k \in 1..Len(txs) |-> txs[k].size])

\* ------------------------------------------------------------------------
\* build_worker_block / build_batch
\* ------------------------------------------------------------------------
\* Faulty variant: only an already full block turns a transaction away.
ExceedsGasWhenFull(total, gas, limit) == total >= limit

\* the block has no capacity (in gas) for this transaction
ExceedsGas(total, gas, limit) == total + gas > limit

\* Faulty variant: the byte check is off by one.
ExceedsBytesOffByOne(total, size, max) == total + size > max + 1

\* Faulty variant: a transaction that fills the block to its byte cap is
\* turned away.
ExceedsBytesWhenFilled(total, size, max) == total + size >= max

\* the block has no capacity (in bytes) for this transaction
ExceedsBytes(total, size, max) == total + size > max

\* the timestamp is moved past the parent's whenever it is not already past it
BlockTimestampPastParent(now, parent_timestamp) ==
    IF now <= parent_timestamp THEN parent_timestamp + 1 ELSE now

\* now(), corrected when it equals the parent's timestamp
BlockTimestamp(now, parent_timestamp) ==
    IF now = parent_timestamp THEN parent_timestamp + 1 ELSE now

InitBuild ==
    /\ pool \in Pools
    /\ \E kind \in {<<"block", "pool">>, <<"block", "block_test">>,
                    <<"batch", "pool">>, <<"batch", "batch_test">>} :
          builder = kind[1] /\ iter = kind[2]
    /\ independent = InitialIndependent(pool, 1)
    /\ invalid = {}
    /\ total_possible_gas = 0
    /\ total_bytes_size = 0
    /\ transactions = <<>>
    /\ yielded = <<>>
    /\ marked = <<>>
    /\ pc = "loop"
    /\ block = <<>>
    /\ tampers = 0
    /\ result = <<>>
    /\ IdleExcept("worker")

\* One pass of `while let Some(pool_tx) = best_txs.next()` with Some(pool_tx).
BuildIteration ==
    /\ pc = "loop"
    /\ LET n == BestNext(iter, pool, independent, invalid)
           tx == pool[n.tx]
       IN /\ ~n.hang
          /\ n.tx # 0
          /\ independent' = n.ind
          /\ yielded' = Append(yielded, n.tx)
          /\ IF ExceedsGas(total_possible_gas, tx.gas, GasCap)
             THEN /\ invalid' = MarkInvalid(iter, pool, n.inv, n.tx)
                  /\ marked' = Append(marked, n.tx)
                  /\ UNCHANGED <<total_possible_gas, total_bytes_size, transactions>>
             ELSE IF ExceedsBytes(total_bytes_size, tx.size, SizeCap)
             THEN /\ invalid' = MarkInvalid(iter, pool, n.inv, n.tx)
                  /\ marked' = Append(marked, n.tx)
                  /\ UNCHANGED <<total_possible_gas, total_bytes_size, transactions>>
             ELSE /\ invalid' = n.inv
                  /\ total_possible_gas' = total_possible_gas + tx.gas
                  /\ total_bytes_size' = total_bytes_size + tx.size
                  /\ transactions' = Append(transactions, n.tx)
                  /\ UNCHANGED marked
    /\ UNCHANGED <<pool, iter, builder, pc, block, tampers, result>>
    /\ UNCHANGED primaryVars

\* best_txs.next() re-enters its own loop forever: the build never returns.
BuildHangs ==
    /\ pc = "loop"
    /\ LET n == BestNext(iter, pool, independent, invalid)
       IN /\ n.hang
          /\ independent' = n.ind
          /\ invalid' = n.inv
    /\ pc' = "hung"
    /\ UNCHANGED <<pool, iter, builder, total_possible_gas, total_bytes_size,
                   transactions, yielded, marked, block, tampers, result>>
    /\ UNCHANGED primaryVars

\* best_txs.next() is None: build_worker_block seals the header and returns.
SealWorkerBlock ==
    /\ pc = "loop"
    /\ builder = "block"
    /\ LET n == BestNext(iter, pool, independent, invalid)
       IN /\ ~n.hang
          /\ n.tx = 0
          /\ independent' = n.ind
          /\ invalid' = n.inv
    /\ \E now \in 0..MaxNow, tip \in DOMAIN Chain :
          LET txs == TxsOf(pool, transactions)
              header == NewHeader(tip, Chain[tip].number + 1,
                                  BlockTimestamp(now, Chain[tip].timestamp),
                                  GasCap, total_possible_gas,
                                  CalculateTransactionRoot(txs))
          IN block' = <<[transactions |-> txs, sealed_header |-> SealSlow(header)]>>
    /\ pc' = "built"
    /\ UNCHANGED <<pool, iter, builder, total_possible_gas, total_bytes_size,
                   transactions, yielded, marked, tampers, result>>
    /\ UNCHANGED primaryVars

\* best_txs.next() is None: build_batch assembles the batch and returns.
SealBatch ==
    /\ pc = "loop"
    /\ builder = "batch"
    /\ LET n == BestNext(iter, pool, independent, invalid)
       IN /\ ~n.hang
          /\ n.tx = 0
          /\ independent' = n.ind
          /\ invalid' = n.inv
    /\ \E now \in 0..MaxNow, tip \in DOMAIN Chain :
          block' = <<[transactions |-> TxsOf(pool, transactions), parent_hash |-> tip,
                      beneficiary |-> 0,
                      timestamp |-> BlockTimestamp(now, Chain[tip].timestamp),
                      base_fee_per_gas |-> 7]>>
    /\ pc' = "batch_built"
    /\ UNCHANGED <<pool, iter, builder, total_possible_gas, total_bytes_size,
                   transactions, yielded, marked, tampers, result>>
    /\ UNCHANGED primaryVars

\* ------------------------------------------------------------------------
\* BlockValidator
\* ------------------------------------------------------------------------
Ok == [err |-> "Ok"]

\* Header::is_timestamp_in_past
IsTimestampInPast(header, parent_timestamp) == header.timestamp <= parent_timestamp

validate_block_hash(sealed) ==
    LET expected == HashSlow(sealed.header)
    IN IF expected # sealed.hash
       THEN [err |-> "BlockHash", expected |-> expected, peer_hash |-> sealed.hash]
       ELSE Ok

validate_transactions_root(txs, sealed) ==
    LET expected == CalculateTransactionRoot(txs)
    IN IF expected # sealed.header.transactions_root
       THEN [err |-> "TransactionRootMismatch", expected |-> expected,
             peer_root |-> sealed.header.transactions_root]
       ELSE Ok

\* Faulty variant: a block that repeats its parent's number passes.
validate_against_parent_number_or_same(header, parent) ==
    IF parent.number + 1 # header.number /\ parent.number # header.number
    THEN [err |-> "ParentBlockNumberMismatch", parent_block_number |-> parent.number,
          block_number |-> header.number]
    ELSE Ok

validate_against_parent_hash_number(header, parent) ==
    IF parent.number + 1 # header.number
    THEN [err |-> "ParentBlockNumberMismatch", parent_block_number |-> parent.number,
          block_number |-> header.number]
    ELSE Ok

validate_against_parent_timestamp(header, parent) ==
    IF IsTimestampInPast(header, parent.timestamp)
    THEN [err |-> "TimestampIsInPast", parent_timestamp |-> parent.timestamp,
          timestamp |-> header.timestamp]
    ELSE Ok

\* Faulty variant: a block that uses its whole gas limit passes.
MaxGasAboveLimit(gas_used, gas_limit) == gas_used > gas_limit

\* header.gas_used >= header.gas_limit
MaxGasExceedsLimit(gas_used, gas_limit) == gas_used >= gas_limit

\* Faulty variant: the mismatch error carries its two values swapped.
validate_block_gas_swapped(header, txs, max_tx_gas) ==
    IF header.gas_limit # max_tx_gas
    THEN [err |-> "InvalidGasLimit", expected |-> max_tx_gas, received |-> header.gas_limit]
    ELSE IF MaxGasExceedsLimit(header.gas_used, header.gas_limit)
    THEN [err |-> "HeaderMaxGasExceedsGasLimit", total_possible_gas |-> header.gas_used,
          gas_limit |-> header.gas_limit]
    ELSE IF txs = <<>>
    THEN [err |-> "CalculateMaxPossibleGas"]
    ELSE IF header.gas_used # GasOf(txs)
    THEN [err |-> "HeaderGasUsedMismatch", expected |-> header.gas_used,
          received |-> GasOf(txs)]
    ELSE Ok

validate_block_gas(header, txs, max_tx_gas) ==
    IF header.gas_limit # max_tx_gas
    THEN [err |-> "InvalidGasLimit", expected |-> max_tx_gas, received |-> header.gas_limit]
    ELSE IF MaxGasExceedsLimit(header.gas_used, header.gas_limit)
    THEN [err |-> "HeaderMaxGasExceedsGasLimit", total_possible_gas |-> header.gas_used,
          gas_limit |-> header.gas_limit]
    ELSE IF txs = <<>>
    THEN [err |-> "CalculateMaxPossibleGas"]
    ELSE IF header.gas_used # GasOf(txs)
    THEN [err |-> "HeaderGasUsedMismatch", expected |-> GasOf(txs),
          received |-> header.gas_used]
    ELSE Ok

validate_block_size_bytes(txs, max_tx_bytes) ==
    IF txs = <<>>
    THEN [err |-> "CalculateTransactionByteSize"]
    ELSE IF SizeOf(txs) > max_tx_bytes
    THEN [err |-> "HeaderTransactionBytesExceedsMax", total_bytes |-> SizeOf(txs)]
    ELSE Ok

validate_basefee == Ok

EmptyValueError(field) ==
    CASE field = "ommers_hash" -> "NonEmptyOmmersHash"
      [] field = "state_root" -> "NonEmptyStateRoot"
      [] field = "receipts_root" -> "NonEmptyReceiptsRoot"
      [] field = "withdrawals_root" -> "NonEmptyWithdrawalsRoot"
      [] field = "logs_bloom" -> "NonEmptyLogsBloom"
      [] field = "mix_hash" -> "NonEmptyMixHash"
      [] field = "nonce" -> "NonZeroNonce"
      [] field = "difficulty" -> "NonZeroDifficulty"
      [] field = "parent_beacon_block_root" -> "NonEmptyBeaconRoot"
      [] field = "blob_gas_used" -> "NonEmptyBlobGas"
      [] field = "excess_blob_gas" -> "NonEmptyExcessBlobGas"
      [] field = "requests_root" -> "NonEmptyRequestsRoot"

RECURSIVE EmptyValuesFrom(_, _)
EmptyValuesFrom(header, k) ==
    IF k > Len(SentinelFields) THEN Ok
    ELSE IF header[SentinelFields[k]] # 0
    THEN [err |-> EmptyValueError(SentinelFields[k]), value |-> header[SentinelFields[k]]]
    ELSE EmptyValuesFrom(header, k + 1)

\* Faulty variant: extra data has to be empty as well.
validate_empty_values_and_extra_data(header) ==
    IF EmptyValuesFrom(header, 1) # Ok THEN EmptyValuesFrom(header, 1)
    ELSE IF header.extra_data # 0
    THEN [err |-> "NonEmptyExtraData", value |-> header.extra_data]
    ELSE Ok

\* Faulty variant: the requests root is not looked at.
validate_empty_values_but_last(header) ==
    IF EmptyValuesFrom(header, 1).err = "NonEmptyRequestsRoot" THEN Ok
    ELSE EmptyValuesFrom(header, 1)

validate_empty_values(header) == EmptyValuesFrom(header, 1)

validate_block(b, max_tx_bytes, max_tx_gas) ==
    LET txs == b.transactions
        sealed == b.sealed_header
        header == sealed.header
    IN IF header.parent_hash \notin DOMAIN Chain
       THEN [err |-> "CanonicalChain", block_hash |-> header.parent_hash]
       ELSE LET parent == Chain[header.parent_hash]
            IN  IF validate_block_hash(sealed) # Ok THEN validate_block_hash(sealed)
                ELSE IF validate_transactions_root(txs, sealed) # Ok
                     THEN validate_transactions_root(txs, sealed)
                ELSE IF validate_against_parent_hash_number(header, parent) # Ok
                     THEN validate_against_parent_hash_number(header, parent)
                ELSE IF validate_against_parent_timestamp(header, parent) # Ok
                     THEN validate_against_parent_timestamp(header, parent)
                ELSE IF validate_block_gas(header, txs, max_tx_gas) # Ok
                     THEN validate_block_gas(header, txs, max_tx_gas)
                ELSE IF validate_block_size_bytes(txs, max_tx_bytes) # Ok
                     THEN validate_block_size_bytes(txs, max_tx_bytes)
                ELSE IF validate_basefee # Ok THEN validate_basefee
                ELSE validate_empty_values(header)

\* The built worker block handed to a validator configured with the same caps.
ValidateBuilt ==
    /\ pc = "built"
    /\ result' = <<validate_block(block[1], SizeCap, GasCap)>>
    /\ pc' = "validated"
    /\ UNCHANGED <<buildVars, block>>
    /\ UNCHANGED primaryVars

NextBuild == BuildIteration \/ BuildHangs \/ SealWorkerBlock \/ SealBatch \/ ValidateBuilt

SpecBuild == InitBuild /\ [][NextBuild]_vars

\* ------------------------------------------------------------------------
\* Peer-proposed worker blocks handed to validate_block
\* ------------------------------------------------------------------------
MaxBlockTxs == 1    \* transactions in a peer's block
MaxTamper == 2      \* header fields a peer sets away from the honest value
PeerGasCap == 2     \* max_tx_gas of the validator under test
PeerSizeCap == 1    \* max_tx_bytes of the validator under test

ForgedHash == HashSlow([forged |-> TRUE])

RECURSIVE BlockTxLists(_)
BlockTxLists(k) ==
    IF k = 0 THEN {<<>>}
    ELSE {Append(l, [sender |-> 1, nonce |-> Len(l), gas |-> g, size |-> z,
                     blob |-> FALSE]) : l \in BlockTxLists(k - 1), g \in TxGas, z \in TxSize}

\* WorkerBlock::new
NewWorkerBlock(txs, sealed) == [transactions |-> txs, sealed_header |-> sealed]

\* The peer changes one header field; a hash that matched is recomputed
\* (unseal().seal_slow()), a forged one stays forged.
WithField(b, field, value) ==
    LET h == [b.sealed_header.header EXCEPT ![field] = value]
        matched == b.sealed_header.hash = HashSlow(b.sealed_header.header)
    IN NewWorkerBlock(b.transactions,
                      [header |-> h,
                       hash |-> IF matched THEN HashSlow(h) ELSE b.sealed_header.hash])

InitValidate ==
    /\ pool = <<>>
    /\ iter = "pool"
    /\ builder = "block"
    /\ independent = <<>>
    /\ invalid = {}
    /\ total_possible_gas = 0
    /\ total_bytes_size = 0
    /\ transactions = <<>>
    /\ yielded = <<>>
    /\ marked = <<>>
    /\ pc = "peer"
    /\ \E txs \in UNION {BlockTxLists(k) : k \in 0..MaxBlockTxs}, parent \in DOMAIN Chain :
          block = <<NewWorkerBlock(txs,
                      SealSlow(NewHeader(parent, Chain[parent].number + 1,
                                         Chain[parent].timestamp + 1, PeerGasCap,
                                         GasOf(txs), CalculateTransactionRoot(txs))))>>
    /\ tampers = 0
    /\ result = <<>>
    /\ IdleExcept("worker")

CanTamper == pc = "peer" /\ tampers < MaxTamper

Tamper(b) ==
    /\ block' = <<b>>
    /\ b # block[1]
    /\ tampers' = tampers + 1
    /\ UNCHANGED <<pool, iter, builder, independent, invalid, total_possible_gas,
                   total_bytes_size, transactions, yielded, marked, pc, result>>
    /\ UNCHANGED primaryVars

PeerSetsGasUsed ==
    /\ CanTamper
    /\ \E v \in 0..(PeerGasCap + 1) : Tamper(WithField(block[1], "gas_used", v))

PeerSetsGasLimit ==
    /\ CanTamper
    /\ \E v \in {PeerGasCap - 1, PeerGasCap + 1} : Tamper(WithField(block[1], "gas_limit", v))

PeerSetsParentHash ==
    /\ CanTamper
    /\ \E v \in DOMAIN Chain \cup {UnknownHash} : Tamper(WithField(block[1], "parent_hash", v))

PeerSetsNumber ==
    /\ CanTamper
    /\ \E v \in 0..3 : Tamper(WithField(block[1], "number", v))

PeerSetsTimestamp ==
    /\ CanTamper
    /\ \E v \in 0..MaxNow : Tamper(WithField(block[1], "timestamp", v))

PeerSetsSentinelField ==
    /\ CanTamper
    /\ \E k \in 1..Len(SentinelFields) : Tamper(WithField(block[1], SentinelFields[k], 1))

PeerSetsExtraData ==
    /\ CanTamper
    /\ \E v \in 1..2 : Tamper(WithField(block[1], "extra_data", v))

PeerSetsTransactionsRoot ==
    /\ CanTamper
    /\ \E txs \in {l \in BlockTxLists(1) : l[1].size = 1} :
          Tamper(WithField(block[1], "transactions_root", CalculateTransactionRoot(txs)))

\* The peer ships fewer transactions than the header commits to.
PeerDropsTransaction ==
    /\ CanTamper
    /\ block[1].transactions # <<>>
    /\ Tamper(NewWorkerBlock(SubSeq(block[1].transactions, 1, Len(block[1].transactions) - 1),
                             block[1].sealed_header))

\* The peer ships a sealed hash that is not the hash of the header.
PeerForgesHash ==
    /\ CanTamper
    /\ Tamper(NewWorkerBlock(block[1].transactions,
                             [header |-> block[1].sealed_header.header, hash |-> ForgedHash]))

ValidatePeerBlock ==
    /\ pc = "peer"
    /\ result' = <<validate_block(block[1], PeerSizeCap, PeerGasCap)>>
    /\ pc' = "validated"
    /\ UNCHANGED <<buildVars, block>>
    /\ UNCHANGED primaryVars

NextValidate ==
    \/ PeerSetsGasUsed \/ PeerSetsGasLimit \/ PeerSetsParentHash \/ PeerSetsNumber
    \/ PeerSetsTimestamp \/ PeerSetsSentinelField \/ PeerSetsExtraData
    \/ PeerSetsTransactionsRoot \/ PeerDropsTransaction \/ PeerForgesHash
    \/ ValidatePeerBlock

SpecValidate == InitValidate /\ [][NextValidate]_vars

\* ========================================================================
\* SpecVote: the primary's RequestVote endpoint (Primary::start_network)
\* ========================================================================
MaxRequests == 3    \* RequestVote calls the primary receives

HeaderRounds == 1..2    \* rounds of the proposed headers

Payloads == 1..2        \* distinct proposals an author can make for one round

VoteHeaders == [author : Peers, round : HeaderRounds, payload : Payloads]

\* `InflightLimitLayer::new(1, WaitMode::ReturnError)` on request_vote
InflightLimit == 1

\* the layer missing: every call is let through to the handler
SlotFreeAlways(n) == TRUE

\* off by one: a call is let through while the peer has the limit in flight
SlotFreeAtLimit(n) == n <= InflightLimit

\* the layer lets a call through while the peer has fewer than the limit in flight
SlotFree(n) == n < InflightLimit

VoteInfo(h) == [round |-> h.round, digest |-> HashSlow(h)]

\* The handler up to the signature: the requester is the header's author and
\* the round is monotonic against the last vote stored for that author.
CheckHeader(peer, h, store) ==
    IF h.author # peer THEN "NotTheAuthor"
    ELSE IF store[h.author] = <<>> THEN "Sign"
    ELSE IF store[h.author][1].round > h.round THEN "TooOld"
    ELSE IF store[h.author][1].round < h.round THEN "Sign"
    ELSE IF store[h.author][1].digest = HashSlow(h) THEN "SameVote"
    ELSE "AlreadyVoted"

Reply(peer, h, answer) == [peer |-> peer, header |-> h, answer |-> answer]

InFlightCalls == SumSeq([p \in 1..Cardinality(Peers) |-> Cardinality(inflight[p])])

CanRequest == Len(replies) + InFlightCalls < MaxRequests

InitVote == VoteIdle /\ IdleExcept("vote")

\* WaitMode::ReturnError: the call is answered with an error, not queued
RequestVoteOverLimit ==
    /\ CanRequest
    /\ \E p \in Peers, h \in VoteHeaders :
          /\ ~SlotFree(Cardinality(inflight[p]))
          /\ replies' = Append(replies, Reply(p, h, "InflightLimit"))
    /\ UNCHANGED <<inflight, vote_store, signed>>
    /\ UNCHANGED voteRest

\* the handler runs and answers without signing
RequestVoteRefused ==
    /\ CanRequest
    /\ \E p \in Peers, h \in VoteHeaders :
          /\ SlotFree(Cardinality(inflight[p]))
          /\ CheckHeader(p, h, vote_store) # "Sign"
          /\ replies' = Append(replies, Reply(p, h, CheckHeader(p, h, vote_store)))
    /\ UNCHANGED <<inflight, vote_store, signed>>
    /\ UNCHANGED voteRest

\* the handler runs, accepts the header and suspends at the signature
RequestVoteAccepted ==
    /\ CanRequest
    /\ \E p \in Peers, h \in VoteHeaders :
          /\ SlotFree(Cardinality(inflight[p]))
          /\ CheckHeader(p, h, vote_store) = "Sign"
          /\ inflight' = [inflight EXCEPT ![p] = @ \cup {h}]
    /\ UNCHANGED <<vote_store, signed, replies>>
    /\ UNCHANGED voteRest

\* the handler resumes: signs, records the vote and answers
VoteSigned ==
    /\ \E p \in Peers : \E h \in inflight[p] :
          /\ signed' = signed \cup {[author |-> h.author, round |-> h.round,
                                     digest |-> HashSlow(h)]}
          /\ vote_store' = [vote_store EXCEPT ![h.author] = <<VoteInfo(h)>>]
          /\ replies' = Append(replies, Reply(p, h, "Vote"))
          /\ inflight' = [inflight EXCEPT ![p] = @ \ {h}]
    /\ UNCHANGED voteRest

NextVote == RequestVoteOverLimit \/ RequestVoteRefused \/ RequestVoteAccepted \/ VoteSigned

SpecVote == InitVote /\ [][NextVote]_vars

\* ========================================================================
\* SpecCertify: the Certifier aggregating the votes for its header
\* ========================================================================
MaxVotes == 4       \* votes delivered to the Certifier

StakeValues == 1..2

Aggregator == [voters |-> accepted, weight |-> weight, certificate |-> certificate]

\* every vote adds its stake, whoever sent it
AppendCountingEveryVote(agg, voter, c) ==
    LET w == agg.weight + c[voter]
        voters == agg.voters \cup {voter}
    IN [voters |-> voters, weight |-> w,
        certificate |-> IF w >= QuorumThreshold(c)
                        THEN <<[signers |-> voters, stake |-> w, last |-> voter]>>
                        ELSE <<>>]

\* One vote handed to the aggregator: a voter already counted is ignored, and
\* the certificate is assembled as soon as the weight reaches the threshold.
AggregatorAppend(agg, voter, c) ==
    IF voter \in agg.voters THEN agg
    ELSE LET w == agg.weight + c[voter]
             voters == agg.voters \cup {voter}
         IN [voters |-> voters, weight |-> w,
             certificate |-> IF w >= QuorumThreshold(c)
                             THEN <<[signers |-> voters, stake |-> w, last |-> voter]>>
                             ELSE <<>>]

InitCertify ==
    /\ IdleExcept("certifier")
    /\ committee \in [Authorities -> StakeValues]
    /\ accepted = {}
    /\ weight = 0
    /\ votes_received = <<>>
    /\ certificate = <<>>

\* CollectingVotes: a vote arrives while the header has no certificate
CertifierReceivesVote ==
    /\ certificate = <<>>
    /\ Len(votes_received) < MaxVotes
    /\ \E voter \in Authorities :
          LET agg == AggregatorAppend(Aggregator, voter, committee)
          IN /\ accepted' = agg.voters
             /\ weight' = agg.weight
             /\ certificate' = agg.certificate
             /\ votes_received' = Append(votes_received, voter)
    /\ UNCHANGED committee
    /\ UNCHANGED certRest

\* CertificateFormed: the votes still on their way are dropped
CertifierDropsLateVote ==
    /\ certificate # <<>>
    /\ Len(votes_received) < MaxVotes
    /\ \E voter \in Authorities : votes_received' = Append(votes_received, voter)
    /\ UNCHANGED <<committee, accepted, weight, certificate>>
    /\ UNCHANGED certRest

NextCertify == CertifierReceivesVote \/ CertifierDropsLateVote

SpecCertify == InitCertify /\ [][NextCertify]_vars

\* ========================================================================
\* SpecOrder: two nodes ingesting the same certificates and committing leaders
\* ========================================================================
MaxRound == 3       \* rounds of the certificate DAG

\* ReputationScores::add_score
AddScore(scores, authority, score) ==
    IF authority \in DOMAIN scores
    THEN [scores EXCEPT ![authority] = @ + score]
    ELSE [a \in DOMAIN scores \cup {authority} |->
             IF a = authority THEN score ELSE scores[a]]

\* ReputationScores::all_zero
AllZero(scores) == ~ \E a \in DOMAIN scores : scores[a] > 0

\* the closure without its Ordering::Equal arm
CompareScoreOnly(a1, a2) ==
    IF a2.score < a1.score THEN "Less"
    ELSE IF a2.score > a1.score THEN "Greater"
    ELSE "Equal"

\* equal scores resolved by identifier ascending
CompareIdAscending(a1, a2) ==
    IF a2.score < a1.score THEN "Less"
    ELSE IF a2.score > a1.score THEN "Greater"
    ELSE IF a1.id < a2.id THEN "Less"
    ELSE IF a1.id > a2.id THEN "Greater"
    ELSE "Equal"

\* The closure given to sort_by: a2's score against a1's and, when equal,
\* a2's identifier against a1's.
Compare(a1, a2) ==
    IF a2.score < a1.score THEN "Less"
    ELSE IF a2.score > a1.score THEN "Greater"
    ELSE IF a2.id < a1.id THEN "Less"
    ELSE IF a2.id > a1.id THEN "Greater"
    ELSE "Equal"

\* x goes in front of the first element it is Less than (sort_by is stable)
InsertStable(sorted, x) ==
    LET before == {i \in 1..Len(sorted) : Compare(x, sorted[i]) = "Less"}
        at == IF before = {} THEN Len(sorted) + 1
              ELSE CHOOSE i \in before : \A j \in before : i <= j
    IN SubSeq(sorted, 1, at - 1) \o <<x>> \o SubSeq(sorted, at, Len(sorted))

RECURSIVE SortBy(_)
SortBy(s) ==
    IF s = <<>> THEN <<>>
    ELSE InsertStable(SortBy(SubSeq(s, 1, Len(s) - 1)), s[Len(s)])

\* orders in which a HashMap over the committee can iterate
IterationOrders ==
    {o \in [1..Cardinality(Authorities) -> Authorities] :
        \A i, j \in DOMAIN o : i # j => o[i] # o[j]}

\* ReputationScores::authorities_by_score_desc, with the map iterating in `order`
AuthoritiesByScoreDesc(scores, order) ==
    SortBy([i \in 1..Len(order) |-> [id |-> order[i], score |-> scores[order[i]]]])

\* Leader of a round: fixed rotation while the scores are all zero, otherwise
\* the ranking by reputation indexed by the round.
LeaderOf(round, scores, order) ==
    LET slot == ((round - 1) % Cardinality(Authorities)) + 1
    IN IF AllZero(scores) THEN slot
       ELSE AuthoritiesByScoreDesc(scores, order)[slot].id

Cert(round, author) == [round |-> round, author |-> author]

\* One authority may be slow: in each round its certificate exists or not; a
\* certificate references every certificate of the round before it.
DagOf(slow, missing) ==
    {Cert(r, a) : r \in 1..MaxRound, a \in Authorities} \
        {Cert(r, slow) : r \in missing}

ParentsOf(c, certs) == {d \in certs : d.round = c.round - 1}

\* stake of the next round's certificates, all of which reference c
Support(c, dag) == StakeOf(EqualStake, {d.author : d \in {e \in dag : e.round = c.round + 1}})

RECURSIVE OrderCerts(_)
\* by round, then by authority id
OrderCerts(certs) ==
    IF certs = {} THEN <<>>
    ELSE LET c == CHOOSE x \in certs : \A y \in certs :
                      x.round < y.round \/ (x.round = y.round /\ x.author <= y.author)
         IN <<c>> \o OrderCerts(certs \ {c})

CommittedCerts(committed) ==
    UNION {Range(committed[i].certificates) : i \in 1..Len(committed)}

RECURSIVE ScoreAuthors(_, _)
\* every certificate of the sub-DAG counts for its author
ScoreAuthors(scores, certs) ==
    IF certs = <<>> THEN scores
    ELSE ScoreAuthors(AddScore(scores, Head(certs).author, 1), Tail(certs))

RECURSIVE CommitLeaders(_, _)
\* Commit every leader that has become committable, oldest round first.
CommitLeaders(node, order) ==
    LET ready == {r \in (node.last_round + 1)..MaxRound :
                     LET l == Cert(r, LeaderOf(r, node.scores, order))
                     IN l \in node.dag /\ Support(l, node.dag) >= QuorumThreshold(EqualStake)}
    IN IF ready = {} THEN node
       ELSE LET r == CHOOSE x \in ready : \A y \in ready : x <= y
                l == Cert(r, LeaderOf(r, node.scores, order))
                certs == OrderCerts(({d \in node.dag : d.round < r} \cup {l})
                                        \ CommittedCerts(node.committed))
                scores == ScoreAuthors(node.scores, certs)
                sub_dag == [leader |-> l, certificates |-> certs,
                            sub_dag_index |-> Len(node.committed) + 1,
                            reputation_score |-> scores]
            IN CommitLeaders([node EXCEPT !.committed = Append(@, sub_dag),
                                          !.scores = scores,
                                          !.last_round = r], order)

InitOrder ==
    /\ IdleExcept("order")
    /\ \E slow \in Authorities, missing \in SUBSET (1..MaxRound) :
          dagset = DagOf(slow, missing)
    /\ nodes = [n \in Nodes |-> NewNode]

\* A node ingests a certificate whose parents it holds, and the orderer runs.
\* The nodes share no state, so a node starts once the one before it has
\* ingested everything.
IngestCertificate ==
    /\ \E n \in Nodes, c \in dagset, order \in IterationOrders :
          /\ c \notin nodes[n].dag
          /\ ParentsOf(c, dagset) \subseteq nodes[n].dag
          /\ n > 1 => nodes[n - 1].dag = dagset
          /\ nodes' = [nodes EXCEPT ![n] =
                          CommitLeaders([@ EXCEPT !.dag = @ \cup {c},
                                                  !.first = IF @ = <<>> THEN <<c>> ELSE @],
                                        order)]
    /\ UNCHANGED dagset
    /\ UNCHANGED orderRest

NextOrder == IngestCertificate

SpecOrder == InitOrder /\ [][NextOrder]_vars

\* ========================================================================
\* SpecDeliver: ConsensusOutput from consensus to the execution engine over
\* the broadcast channel (start_engine, subscribe_consensus_output)
\* ========================================================================
MaxOutputs == 6         \* ConsensusOutputs that consensus emits

ChannelCapacity == 2    \* capacity of the broadcast channel

\* oldest sequence number the channel still retains
OldestRetained(n) == IF n > ChannelCapacity THEN n - ChannelCapacity + 1 ELSE 1

InitDeliver == DeliverIdle /\ IdleExcept("deliver")

\* `let _ = sender.send(output)`: never waits for the receivers
ConsensusSendsOutput ==
    /\ sent < MaxOutputs
    /\ sent' = sent + 1
    /\ UNCHANGED <<cursor, lagged, delivered, engine>>
    /\ UNCHANGED deliverRest

\* the stream yields Ok(output)
EngineReceivesOutput ==
    /\ engine = "running"
    /\ OldestRetained(sent) <= cursor
    /\ cursor <= sent
    /\ delivered' = Append(delivered, cursor)
    /\ cursor' = cursor + 1
    /\ UNCHANGED <<sent, lagged, engine>>
    /\ UNCHANGED deliverRest

\* The stream yields Err(Lagged(n)): the receiver has fallen behind the channel
\* and resumes at the oldest value retained. The engine goes on or gives up.
EngineReceivesLagged ==
    /\ engine = "running"
    /\ cursor < OldestRetained(sent)
    /\ lagged' = lagged + (OldestRetained(sent) - cursor)
    /\ cursor' = OldestRetained(sent)
    /\ engine' \in {"running", "stopped"}
    /\ UNCHANGED <<sent, delivered>>
    /\ UNCHANGED deliverRest

NextDeliver == ConsensusSendsOutput \/ EngineReceivesOutput \/ EngineReceivesLagged

SpecDeliver == InitDeliver /\ [][NextDeliver]_vars

\* ========================================================================
\* SpecExecute: execute_consensus_output, crash and restart recovery
\* ========================================================================
MaxSubDags == 2     \* sub-dags that consensus commits

MaxBatches == 2     \* batches in one ConsensusOutput

MaxRestarts == 1    \* restarts of the node

\* SimpleExecutionState::last_executed_sub_dag_index
SimpleLastExecutedSubDagIndex == 0

\* LatticeExecutionState::last_executed_sub_dag_index
LatticeLastExecutedSubDagIndex == 0

last_executed_sub_dag_index(state) ==
    IF state = "simple" THEN SimpleLastExecutedSubDagIndex
    ELSE LatticeLastExecutedSubDagIndex

\* consensus re-delivers the sub-dags after the one reported as executed
RedeliverFrom(index) == index + 1

\* blocks an output is executed into: one per batch, one empty block if none
BlocksOf(n) == IF output_batches[n] = 0 THEN 1 ELSE output_batches[n]

NewBlock(n, index) == [output |-> n, index |-> index]

\* ExecutionNodeInner::last_executed_output: the output recorded in the
\* finalized block's parent_beacon_block_root, the default without a block
last_executed_output ==
    IF db_finalized = 0 \/ db_finalized > Len(chain_db) THEN 0
    ELSE chain_db[db_finalized].output

\* insert_block adds the block to the tree and leaves the finalized block alone
FinalizedAfterInsertMoved(finalized, number) == number

FinalizedAfterInsert(finalized, number) == finalized

InitExecute ==
    /\ IdleExcept("execute")
    /\ output_batches \in [1..MaxSubDags -> 0..MaxBatches]
    /\ exec = NoCall
    /\ exec_pc = "idle"
    /\ tree = <<>>
    /\ chain_db = <<>>
    /\ db_finalized = 0
    /\ tracker = [head |-> 0, finalized |-> 0, safe |-> 0]
    /\ completed = 0
    /\ restarts = 0
    /\ redeliver_from = <<>>

NextOutput == IF redeliver_from # <<>> /\ exec.output = 0 THEN redeliver_from[1]
              ELSE exec.output + 1

\* the engine calls execute_consensus_output with the next output
BeginOutput ==
    /\ exec_pc = "idle"
    /\ NextOutput <= MaxSubDags
    /\ exec' = [output |-> NextOutput, batch |-> 0, before |-> db_finalized]
    /\ exec_pc' = "blocks"
    /\ UNCHANGED <<output_batches, tree, chain_db, db_finalized, tracker, completed,
                   restarts, redeliver_from>>
    /\ UNCHANGED execRest

\* one pass of the loop (or the empty payload): the block is built and inserted
BlockExecuted ==
    /\ exec_pc = "blocks"
    /\ exec.batch < BlocksOf(exec.output)
    /\ tree' = Append(tree, NewBlock(exec.output, exec.batch))
    /\ db_finalized' = FinalizedAfterInsert(db_finalized, Len(chain_db) + Len(tree) + 1)
    /\ exec' = [exec EXCEPT !.batch = @ + 1]
    /\ UNCHANGED <<output_batches, exec_pc, chain_db, tracker, completed, restarts,
                   redeliver_from>>
    /\ UNCHANGED execRest

\* building or inserting the block fails: `?` returns the error
BlockExecutionFails ==
    /\ exec_pc = "blocks"
    /\ exec.batch < BlocksOf(exec.output)
    /\ exec_pc' = "failed_block"
    /\ UNCHANGED <<output_batches, exec, tree, chain_db, db_finalized, tracker, completed,
                   restarts, redeliver_from>>
    /\ UNCHANGED execRest

\* provider.make_canonical and set_canonical_head
MakeCanonical ==
    /\ exec_pc = "blocks"
    /\ exec.batch = BlocksOf(exec.output)
    /\ \/ /\ chain_db' = chain_db \o tree
          /\ tree' = <<>>
          /\ tracker' = [tracker EXCEPT !.head = Len(chain_db) + Len(tree)]
          /\ exec_pc' = "canonical"
       \/ /\ exec_pc' = "failed_canonical"
          /\ UNCHANGED <<chain_db, tree, tracker>>
    /\ UNCHANGED <<output_batches, exec, db_finalized, completed, restarts, redeliver_from>>
    /\ UNCHANGED execRest

\* provider.finalize_block, set_finalized, set_safe and Ok(canonical_header)
FinalizeBlock ==
    /\ exec_pc = "canonical"
    /\ \/ /\ db_finalized' = Len(chain_db)
          /\ tracker' = [tracker EXCEPT !.finalized = Len(chain_db), !.safe = Len(chain_db)]
          /\ completed' = exec.output
          /\ exec_pc' = "idle"
       \/ /\ exec_pc' = "failed_finalize"
          /\ UNCHANGED <<db_finalized, tracker, completed>>
    /\ UNCHANGED <<output_batches, exec, tree, chain_db, restarts, redeliver_from>>
    /\ UNCHANGED execRest

\* the process dies: what is in memory is lost, the database stays
Crash ==
    /\ exec_pc # "crashed"
    /\ restarts < MaxRestarts
    /\ exec_pc' = "crashed"
    /\ tree' = <<>>
    /\ UNCHANGED <<output_batches, exec, chain_db, db_finalized, tracker, completed,
                   restarts, redeliver_from>>
    /\ UNCHANGED execRest

\* the node starts again and consensus asks the execution state where to resume
Restart ==
    /\ exec_pc = "crashed"
    /\ \E state \in {"simple", "lattice"} :
          redeliver_from' = <<RedeliverFrom(last_executed_sub_dag_index(state))>>
    /\ restarts' = restarts + 1
    /\ exec' = NoCall
    /\ exec_pc' = "idle"
    /\ tracker' = [head |-> Len(chain_db), finalized |-> db_finalized, safe |-> db_finalized]
    /\ UNCHANGED <<output_batches, tree, chain_db, db_finalized, completed>>
    /\ UNCHANGED execRest

NextExecute ==
    \/ BeginOutput \/ BlockExecuted \/ BlockExecutionFails \/ MakeCanonical
    \/ FinalizeBlock \/ Crash \/ Restart

SpecExecute == InitExecute /\ [][NextExecute]_vars

\* ========================================================================
\* SpecSpawn: Primary::spawn and the tasks it starts
\* ========================================================================
MaxHeaders == 5     \* headers a Proposer emits

NodeModes == {"CvvActive", "CvvInactive", "Observer"}

\* NodeMode::is_active_cvv
IsActiveCvv(mode) == mode = "CvvActive"

\* NodeMode::is_cvv
IsCvv(mode) == mode \in {"CvvActive", "CvvInactive"}

\* `if consensus_bus.node_mode().borrow().is_active_cvv()`
RunsStateSync(mode) == IsActiveCvv(mode)

\* the Proposer started whatever the mode
RunsProposerAlways(mode) == TRUE

\* "Only run the proposer task if we are a CVV."
RunsProposer(mode) == IsCvv(mode)

\* tasks spawn starts, in the order of the code
SpawnedTasks(mode) ==
    (IF RunsStateSync(mode) THEN <<"StateSynchronizer">> ELSE <<>>)
    \o <<"ConnectionMonitor", "AdminServer", "Certifier", "CertificateFetcher">>
    \o (IF RunsProposer(mode) THEN <<"Proposer">> ELSE <<>>)
    \o <<"StateHandler", "PrimaryNetwork">>

InitSpawn ==
    /\ IdleExcept("spawn")
    /\ node_mode \in NodeModes
    /\ mode_at_spawn = <<>>
    /\ peer_types = TRUE
    /\ tasks = <<>>
    /\ primary_pc = "new"
    /\ headers_emitted = 0

\* the mode on the bus is changed by its owner
NodeModeChanges ==
    /\ \E mode \in NodeModes \ {node_mode} : node_mode' = mode
    /\ UNCHANGED <<mode_at_spawn, peer_types, tasks, primary_pc, headers_emitted>>
    /\ UNCHANGED spawnRest

\* Primary::spawn
Spawn ==
    /\ primary_pc = "new"
    /\ peer_types
    /\ mode_at_spawn' = <<node_mode>>
    /\ tasks' = tasks \o SpawnedTasks(node_mode)
    /\ peer_types' = FALSE
    /\ primary_pc' = "spawned"
    /\ UNCHANGED <<node_mode, headers_emitted>>
    /\ UNCHANGED spawnRest

\* Primary::spawn called once more: peer_types.take().expect(..) panics, after
\* the state synchronizer was spawned again
SpawnAgain ==
    /\ primary_pc = "spawned"
    /\ ~peer_types
    /\ tasks' = tasks \o (IF RunsStateSync(node_mode) THEN <<"StateSynchronizer">> ELSE <<>>)
    /\ primary_pc' = "panicked"
    /\ UNCHANGED <<node_mode, mode_at_spawn, peer_types, headers_emitted>>
    /\ UNCHANGED spawnRest

\* a running Proposer builds a header and sends it to the Certifier
ProposerEmitsHeader ==
    /\ "Proposer" \in Range(tasks)
    /\ headers_emitted < MaxHeaders
    /\ headers_emitted' = headers_emitted + 1
    /\ UNCHANGED <<node_mode, mode_at_spawn, peer_types, tasks, primary_pc>>
    /\ UNCHANGED spawnRest

NextSpawn == NodeModeChanges \/ Spawn \/ SpawnAgain \/ ProposerEmitsHeader

SpecSpawn == InitSpawn /\ [][NextSpawn]_vars

\* ========================================================================
\* SpecNet: ConsensusNetwork, its commands and the swarm's events
\* ========================================================================
EventStreamCapacity == 1    \* capacity of the mpsc channel behind event_stream

NetPeers == {"p1", "p2"}

\* gossipsub::Message.source is an Option<PeerId>
NoSource == "none"

GossipSources == NetPeers \cup {NoSource}

\* any message that names a source is taken
IsAuthorizedAnySource(source, publishers) == source # NoSource

\* message.source.is_some_and(|id| self.authorized_publishers.contains(&id))
IsAuthorized(source, publishers) == source # NoSource /\ source \in publishers

\* self.event_stream.try_send(..) succeeds while the channel has room
HasRoom(stream) == Len(stream) < EventStreamCapacity

\* HashMap::insert
MapInsert(map, key, value) == {e \in map : e[1] # key} \cup {<<key, value>>}

\* HashMap::get
MapGet(map, key) == {e[2] : e \in {x \in map : x[1] = key}}

\* the entry stays in the map
MapRemoveKept(map, key) == map

\* HashMap::remove
MapRemove(map, key) == {e \in map : e[1] # key}

\* run() returned: the network is dropped and with it every reply sender it
\* still holds, so each waiting receiver resolves to a RecvError
SendersDropped(pending, states) ==
    [c \in ReplyChannels |->
        IF states[c] = "waiting" /\ \E e \in pending : e[2] = c
        THEN "closed" ELSE states[c]]

GossipRecord(source, acceptance, forwarded) ==
    [source |-> source, publishers |-> authorized_publishers,
     acceptance |-> acceptance, forwarded |-> forwarded]

InitNet ==
    /\ IdleExcept("net")
    /\ authorized_publishers \in SUBSET NetPeers
    /\ event_stream = <<>>
    /\ net_status = "running"
    /\ last_gossip = <<>>
    /\ next_request_id = 1
    /\ swarm_outstanding = {}
    /\ pending_requests = {}
    /\ request_reply = {}
    /\ reply_state = [c \in ReplyChannels |-> "unused"]
    /\ reply_values = [c \in ReplyChannels |-> <<>>]
    /\ removed_publishers = {}

\* process_command, NetworkCommand::UpdateAuthorizedPublishers
UpdateAuthorizedPublishers ==
    /\ net_status = "running"
    /\ \E authorities \in SUBSET NetPeers :
        /\ authorized_publishers' = authorities
        /\ removed_publishers' =
              (removed_publishers \cup (authorized_publishers \ authorities)) \ authorities
    /\ UNCHANGED <<event_stream, net_status, last_gossip, next_request_id,
                   swarm_outstanding, pending_requests, request_reply, reply_state,
                   reply_values>>
    /\ UNCHANGED netRest

\* process_event, gossipsub::Event::Message
GossipMessage ==
    /\ net_status = "running"
    /\ \E source \in GossipSources :
        IF IsAuthorized(source, authorized_publishers)
        THEN IF HasRoom(event_stream)
             THEN /\ event_stream' =
                        Append(event_stream, [kind |-> "Gossip", from |-> source])
                  /\ last_gossip' = <<GossipRecord(source, "Accept", TRUE)>>
                  /\ UNCHANGED <<net_status, pending_requests, reply_state>>
             ELSE \* try_send failed: `return Err(e.into())`, before any report
                  /\ net_status' = "failed"
                  /\ last_gossip' = <<GossipRecord(source, "none", FALSE)>>
                  /\ pending_requests' = {}
                  /\ reply_state' = SendersDropped(pending_requests, reply_state)
                  /\ UNCHANGED event_stream
        ELSE /\ last_gossip' = <<GossipRecord(source, "Reject", FALSE)>>
             /\ UNCHANGED <<event_stream, net_status, pending_requests, reply_state>>
    /\ UNCHANGED <<authorized_publishers, next_request_id, swarm_outstanding,
                   request_reply, reply_values, removed_publishers>>
    /\ UNCHANGED netRest

\* process_event, request_response::Message::Request; which peer sent the
\* request plays no part in what the network does with it
InboundRequest ==
    /\ net_status = "running"
    /\ IF HasRoom(event_stream)
       THEN /\ event_stream' = Append(event_stream, [kind |-> "Request"])
            /\ UNCHANGED <<net_status, pending_requests, reply_state>>
       ELSE /\ net_status' = "failed"
            /\ pending_requests' = {}
            /\ reply_state' = SendersDropped(pending_requests, reply_state)
            /\ UNCHANGED event_stream
    /\ UNCHANGED <<authorized_publishers, last_gossip, next_request_id,
                   swarm_outstanding, request_reply, reply_values, removed_publishers>>
    /\ UNCHANGED netRest

\* the handler takes the next event from the stream
HandlerTakesEvent ==
    /\ event_stream # <<>>
    /\ event_stream' = Tail(event_stream)
    /\ UNCHANGED <<authorized_publishers, net_status, last_gossip, next_request_id,
                   swarm_outstanding, pending_requests, request_reply, reply_state,
                   reply_values, removed_publishers>>
    /\ UNCHANGED netRest

\* process_swarm_command, SwarmCommand::SendRequest
SendRequest ==
    /\ net_status = "running"
    /\ next_request_id <= MaxNetRequests
    /\ \E reply \in {c \in ReplyChannels : reply_state[c] = "unused"} :
        /\ pending_requests' = MapInsert(pending_requests, next_request_id, reply)
        /\ request_reply' = request_reply \cup {<<next_request_id, reply>>}
        /\ reply_state' = [reply_state EXCEPT ![reply] = "waiting"]
    /\ swarm_outstanding' = swarm_outstanding \cup {next_request_id}
    /\ next_request_id' = next_request_id + 1
    /\ UNCHANGED <<authorized_publishers, event_stream, net_status, last_gossip,
                   reply_values, removed_publishers>>
    /\ UNCHANGED netRest

\* process_event, request_response::Message::Response
ResponseEvent(request_id) ==
    /\ net_status = "running"
    /\ request_id \in swarm_outstanding
    /\ swarm_outstanding' = swarm_outstanding \ {request_id}
    /\ LET found == MapGet(pending_requests, request_id)
           left == MapRemove(pending_requests, request_id)
       IN  IF found = {}
           THEN \* .ok_or(NetworkError::RequestChannelLost)?
                /\ net_status' = "failed"
                /\ pending_requests' = {}
                /\ reply_state' = SendersDropped(left, reply_state)
                /\ UNCHANGED reply_values
           ELSE \E reply \in found :
                IF reply_state[reply] = "waiting"
                THEN /\ reply_state' = [reply_state EXCEPT ![reply] = "answered"]
                     /\ reply_values' =
                           [reply_values EXCEPT ![reply] = Append(@, request_id)]
                     /\ pending_requests' = left
                     /\ UNCHANGED net_status
                ELSE \* the receiver is gone: send fails, RequestChannelLost
                     /\ net_status' = "failed"
                     /\ pending_requests' = {}
                     /\ reply_state' = SendersDropped(left, reply_state)
                     /\ UNCHANGED reply_values
    /\ UNCHANGED <<authorized_publishers, event_stream, last_gossip, next_request_id,
                   request_reply, removed_publishers>>
    /\ UNCHANGED netRest

\* process_event, request_response::Event::OutboundFailure: printed, nothing else
OutboundFailureEvent(request_id) ==
    /\ net_status = "running"
    /\ request_id \in swarm_outstanding
    /\ swarm_outstanding' = swarm_outstanding \ {request_id}
    /\ UNCHANGED <<authorized_publishers, event_stream, net_status, last_gossip,
                   next_request_id, pending_requests, request_reply, reply_state,
                   reply_values, removed_publishers>>
    /\ UNCHANGED netRest

\* a caller gives up and drops the receiving end of its reply channel
CallerDropsReply ==
    /\ \E reply \in {c \in ReplyChannels : reply_state[c] = "waiting"} :
        reply_state' = [reply_state EXCEPT ![reply] = "dropped"]
    /\ UNCHANGED <<authorized_publishers, event_stream, net_status, last_gossip,
                   next_request_id, swarm_outstanding, pending_requests, request_reply,
                   reply_values, removed_publishers>>
    /\ UNCHANGED netRest

\* the swarm reports on every request it was handed: a response or a failure
SwarmReports ==
    \E request_id \in RequestIds :
        ResponseEvent(request_id) \/ OutboundFailureEvent(request_id)

NextNet ==
    \/ UpdateAuthorizedPublishers
    \/ GossipMessage
    \/ InboundRequest
    \/ HandlerTakesEvent
    \/ SendRequest
    \/ SwarmReports
    \/ CallerDropsReply

SpecNet == InitNet /\ [][NextNet]_vars

\* the swarm keeps reporting and the handler keeps taking events
SpecNetFair ==
    /\ SpecNet
    /\ WF_vars(SwarmReports)
    /\ WF_vars(HandlerTakesEvent)

\* ========================================================================
\* SpecNode: WorkerNode::start and WorkerNode::shutdown
\* ========================================================================
\* every handle counts as live
AnyHandle(kept, ts) == kept # 0

\* self.handles.iter().any(|h| !h.is_finished())
is_running(kept, ts) ==
    kept # 0 /\ \E t \in WorkerTasks : ts[kept][t] = "running"

\* the join gives up waiting as soon as one handle has completed
JoinedAny(kept, ts) ==
    IF kept = 0 THEN TRUE ELSE \E t \in WorkerTasks : ts[kept][t] = "done"

\* try_join_all(&mut self.handles) resolves to Ok: every handle completed
JoinedAll(kept, ts) ==
    IF kept = 0 THEN TRUE ELSE \A t \in WorkerTasks : ts[kept][t] = "done"

\* try_join_all resolves to Err at the first JoinError: a task panicked
JoinError(kept, ts) ==
    kept # 0 /\ \E t \in WorkerTasks : ts[kept][t] = "panicked"

NewCall(op) ==
    [op |-> op, pc |-> "waiting", result |-> "none", found_running |-> FALSE,
     left_running |-> FALSE]

Waiting(c) == c \in DOMAIN node_calls /\ node_calls[c].pc = "waiting"

Holding(c) == c \in DOMAIN node_calls /\ internal_lock = c

Return(c, outcome) ==
    [node_calls EXCEPT ![c].pc = "returned", ![c].result = outcome,
                       ![c].left_running =
                           handles # 0 /\ \E t \in WorkerTasks :
                               worker_tasks[handles][t] = "running"]

InitNode ==
    /\ IdleExcept("node")
    /\ node_calls = <<>>
    /\ internal_lock = 0
    /\ handles = 0
    /\ tx_shutdown = 0
    /\ worker_tasks = NoTasks
    /\ notified = {}

\* a caller calls start or shutdown and queues for the write lock
Call ==
    /\ Len(node_calls) < MaxNodeCalls
    /\ \E op \in {"start", "shutdown"} : node_calls' = Append(node_calls, NewCall(op))
    /\ UNCHANGED <<internal_lock, handles, tx_shutdown, worker_tasks, notified>>
    /\ UNCHANGED nodeRest

\* WorkerNode::start gets the lock; WorkerNodeInner::start up to worker.spawn
StartBegins(c) ==
    /\ Waiting(c) /\ node_calls[c].op = "start"
    /\ internal_lock = 0
    /\ LET found == handles # 0 /\ \E t \in WorkerTasks :
                       worker_tasks[handles][t] = "running"
       IN  IF is_running(handles, worker_tasks)
           THEN /\ node_calls' = [node_calls EXCEPT ![c].pc = "returned",
                                     ![c].result = "NodeAlreadyRunning",
                                     ![c].found_running = found,
                                     ![c].left_running = found]
                /\ UNCHANGED <<internal_lock, worker_tasks>>
           ELSE /\ node_calls' = [node_calls EXCEPT ![c].pc = "spawned",
                                                    ![c].found_running = found]
                /\ internal_lock' = c
                /\ worker_tasks' =
                      [worker_tasks EXCEPT ![c] = [t \in WorkerTasks |-> "running"]]
    /\ UNCHANGED <<handles, tx_shutdown, notified>>
    /\ UNCHANGED nodeRest

\* start_batch_maker(..).await? returns the error: the handles and the
\* Notifier of this call are dropped, the lock is released
StartFails(c) ==
    /\ Holding(c) /\ node_calls[c].pc = "spawned"
    /\ node_calls' = Return(c, "Error")
    /\ internal_lock' = 0
    /\ UNCHANGED <<handles, tx_shutdown, worker_tasks, notified>>
    /\ UNCHANGED nodeRest

\* start_batch_maker succeeded: "now keep the handlers"
StartCompletes(c) ==
    /\ Holding(c) /\ node_calls[c].pc = "spawned"
    /\ handles' = c
    /\ tx_shutdown' = c
    /\ node_calls' = [node_calls EXCEPT ![c].pc = "returned", ![c].result = "Ok",
                         ![c].left_running =
                             \E t \in WorkerTasks : worker_tasks[c][t] = "running"]
    /\ internal_lock' = 0
    /\ UNCHANGED <<worker_tasks, notified>>
    /\ UNCHANGED nodeRest

\* WorkerNode::shutdown gets the lock; WorkerNodeInner::shutdown up to the join
ShutdownBegins(c) ==
    /\ Waiting(c) /\ node_calls[c].op = "shutdown"
    /\ internal_lock = 0
    /\ LET found == handles # 0 /\ \E t \in WorkerTasks :
                       worker_tasks[handles][t] = "running"
       IN  IF ~is_running(handles, worker_tasks)
           THEN /\ node_calls' = [node_calls EXCEPT ![c].pc = "returned",
                                     ![c].result = "Ok",
                                     ![c].found_running = found,
                                     ![c].left_running = found]
                /\ UNCHANGED <<internal_lock, tx_shutdown, notified>>
           ELSE /\ node_calls' = [node_calls EXCEPT ![c].pc = "joining",
                                                    ![c].found_running = found]
                /\ internal_lock' = c
                /\ notified' = IF tx_shutdown # 0 THEN notified \cup {tx_shutdown}
                               ELSE notified
                /\ tx_shutdown' = 0
    /\ UNCHANGED <<handles, worker_tasks>>
    /\ UNCHANGED nodeRest

\* try_join_all(..).await.unwrap() with every handle completed
ShutdownReturns(c) ==
    /\ Holding(c) /\ node_calls[c].pc = "joining"
    /\ JoinedAll(handles, worker_tasks)
    /\ node_calls' = Return(c, "Ok")
    /\ internal_lock' = 0
    /\ UNCHANGED <<handles, tx_shutdown, worker_tasks, notified>>
    /\ UNCHANGED nodeRest

\* try_join_all(..).await.unwrap() with a JoinError: the call panics and the
\* guard is dropped
ShutdownPanics(c) ==
    /\ Holding(c) /\ node_calls[c].pc = "joining"
    /\ JoinError(handles, worker_tasks)
    /\ node_calls' = [node_calls EXCEPT ![c].pc = "panicked"]
    /\ internal_lock' = 0
    /\ UNCHANGED <<handles, tx_shutdown, worker_tasks, notified>>
    /\ UNCHANGED nodeRest

\* a task of a worker ends: it returns, or it panics
TaskEnds ==
    /\ \E c \in NodeCallIds, t \in WorkerTasks, how \in {"done", "panicked"} :
        /\ worker_tasks[c][t] = "running"
        /\ worker_tasks' = [worker_tasks EXCEPT ![c][t] = how]
    /\ UNCHANGED <<node_calls, internal_lock, handles, tx_shutdown, notified>>
    /\ UNCHANGED nodeRest

NextNode ==
    \/ Call
    \/ \E c \in NodeCallIds :
        \/ StartBegins(c)
        \/ StartFails(c)
        \/ StartCompletes(c)
        \/ ShutdownBegins(c)
        \/ ShutdownReturns(c)
        \/ ShutdownPanics(c)
    \/ TaskEnds

SpecNode == InitNode /\ [][NextNode]_vars

\* ========================================================================
\* SpecProvide: the worker's block provider between builder and quorum waiter
\* ========================================================================
MaxProviderBlocks == 3      \* NewWorkerBlock messages the builder sends

\* transaction lists of the blocks the builder seals
BlockBodies == {"aa", "ab"}

\* WorkerBlock::digest
BlockDigest(b) == <<"digest", b.txs>>

\* the builder is acknowledged as soon as the block went to the quorum waiter
MayAckBuilderEarly(at) == at \in {"quorum_waiter", "reported"}

\* the builder's oneshot is answered last: after the quorum waiter's answer,
\* the insert into WorkerBlocks and the report to the primary
MayAckBuilder(at) == at = "reported"

SetAt(i, at) == [provider_blocks EXCEPT ![i].at = at]

InitProvide ==
    /\ IdleExcept("provide")
    /\ provider_blocks = <<>>
    /\ worker_blocks = {}
    /\ quorum_acked = {}
    /\ builder_acked = <<>>

\* tx_block_maker.send(NewWorkerBlock { block, ack }); the provider passes
\* (block, resp) on to the quorum waiter
BuilderSendsBlock ==
    /\ Len(provider_blocks) < MaxProviderBlocks
    /\ \E txs \in BlockBodies :
        provider_blocks' = Append(provider_blocks, [txs |-> txs, at |-> "quorum_waiter"])
    /\ UNCHANGED <<worker_blocks, quorum_acked, builder_acked>>
    /\ UNCHANGED provideRest

\* resp.send(()): a quorum of peer workers has the block
QuorumWaiterAcks(i) ==
    /\ provider_blocks[i].at = "quorum_waiter"
    /\ provider_blocks' = SetAt(i, "quorum_acked")
    /\ quorum_acked' = quorum_acked \cup {i}
    /\ UNCHANGED <<worker_blocks, builder_acked>>
    /\ UNCHANGED provideRest

\* the quorum waiter drops resp without answering: no quorum
QuorumWaiterGivesUp(i) ==
    /\ provider_blocks[i].at = "quorum_waiter"
    /\ provider_blocks' = SetAt(i, "dropped")
    /\ UNCHANGED <<worker_blocks, quorum_acked, builder_acked>>
    /\ UNCHANGED provideRest

\* store.insert::<WorkerBlocks>(&digest, &block)
ProviderStoresBlock(i) ==
    /\ provider_blocks[i].at = "quorum_acked"
    /\ worker_blocks' = worker_blocks \cup {<<BlockDigest(provider_blocks[i]), provider_blocks[i].txs>>}
    /\ provider_blocks' = SetAt(i, "stored")
    /\ UNCHANGED <<quorum_acked, builder_acked>>
    /\ UNCHANGED provideRest

\* report_own_block to the worker's primary: accepted, or failed
ProviderReportsBlock(i) ==
    /\ provider_blocks[i].at = "stored"
    /\ \E ok \in BOOLEAN :
        provider_blocks' = SetAt(i, IF ok THEN "reported" ELSE "dropped")
    /\ UNCHANGED <<worker_blocks, quorum_acked, builder_acked>>
    /\ UNCHANGED provideRest

\* ack.send(()) to the builder
ProviderAcksBuilder(i) ==
    /\ MayAckBuilder(provider_blocks[i].at)
    /\ provider_blocks' = SetAt(i, "done")
    /\ builder_acked' = Append(builder_acked, i)
    /\ UNCHANGED <<worker_blocks, quorum_acked>>
    /\ UNCHANGED provideRest

NextProvide ==
    \/ BuilderSendsBlock
    \/ \E i \in 1..MaxProviderBlocks :
        /\ i \in DOMAIN provider_blocks
        /\ \/ QuorumWaiterAcks(i)
           \/ QuorumWaiterGivesUp(i)
           \/ ProviderStoresBlock(i)
           \/ ProviderReportsBlock(i)
           \/ ProviderAcksBuilder(i)

SpecProvide == InitProvide /\ [][NextProvide]_vars

\* ========================================================================
\* SpecStamp: the timestamp the three builders give to what they build
\* ========================================================================
MaxClock == 6       \* largest clock reading and parent timestamp

\* StorageInner::build_header_template: header.timestamp
HeaderTemplateTimestamp(now, parent_timestamp) ==
    LET timestamp == now
    IN  IF timestamp = parent_timestamp THEN parent_timestamp + 1 ELSE timestamp

InitStamp ==
    /\ IdleExcept("stamp")
    /\ clock_reading \in 0..MaxClock
    /\ parent_timestamp_read \in 0..MaxClock
    /\ stamped = <<>>

\* build_worker_block
StampWorkerBlock ==
    /\ stamped = <<>>
    /\ stamped' = <<[builder |-> "build_worker_block",
                     timestamp |-> BlockTimestamp(clock_reading, parent_timestamp_read)]>>
    /\ UNCHANGED <<clock_reading, parent_timestamp_read>>
    /\ UNCHANGED stampRest

\* build_batch
StampBatch ==
    /\ stamped = <<>>
    /\ stamped' = <<[builder |-> "build_batch",
                     timestamp |-> BlockTimestamp(clock_reading, parent_timestamp_read)]>>
    /\ UNCHANGED <<clock_reading, parent_timestamp_read>>
    /\ UNCHANGED stampRest

\* build_header_template
StampHeaderTemplate ==
    /\ stamped = <<>>
    /\ stamped' = <<[builder |-> "build_header_template",
                     timestamp |->
                         HeaderTemplateTimestamp(clock_reading, parent_timestamp_read)]>>
    /\ UNCHANGED <<clock_reading, parent_timestamp_read>>
    /\ UNCHANGED stampRest

NextStamp == StampWorkerBlock \/ StampBatch \/ StampHeaderTemplate

SpecStamp == InitStamp /\ [][NextStamp]_vars

\* ========================================================================
\* SpecScores: ReputationScores under add_score
\* ========================================================================
MaxScore == 2       \* largest score an authority reaches

\* orders in which the HashMap can iterate over its entries
IterationOrdersOf(scores) ==
    {o \in [1..Cardinality(DOMAIN scores) -> DOMAIN scores] :
        \A i, j \in DOMAIN o : i # j => o[i] # o[j]}

\* ReputationScores::default() or ReputationScores::new(committee)
InitScores ==
    /\ IdleExcept("score")
    /\ scores_per_authority \in {[a \in {} |-> 0], ReputationScoresNew(EqualStake)}

\* ReputationScores::add_score
AddScoreCall ==
    /\ \E authority \in Authorities, score \in 0..MaxScore :
        /\ (IF authority \in DOMAIN scores_per_authority
            THEN scores_per_authority[authority] ELSE 0) + score <= MaxScore
        /\ scores_per_authority' = AddScore(scores_per_authority, authority, score)
    /\ UNCHANGED scoreRest

NextScores == AddScoreCall

SpecScores == InitScores /\ [][NextScores]_vars

\* ========================================================================
\* SpecStore: one table of the persistent store, its write transaction and
\* its readers
\* ========================================================================
StoreValues == {"a", "b"}

NoValue == "none"

Deleted == "deleted"

NoRecord == [key |-> -1, value |-> NoValue]

NoWrites == [k \in StoreKeys |-> Untouched]

\* Database::get
Get(t, k) ==
    IF \E i \in 1..Len(t) : t[i].key = k
    THEN t[CHOOSE i \in 1..Len(t) : t[i].key = k].value
    ELSE NoValue

RECURSIVE WithoutKey(_, _)
WithoutKey(t, k) ==
    IF t = <<>> THEN <<>>
    ELSE IF Head(t).key = k THEN WithoutKey(Tail(t), k)
    ELSE <<Head(t)>> \o WithoutKey(Tail(t), k)

\* Database::remove
TableRemove(t, k) == WithoutKey(t, k)

RECURSIVE PlaceByKey(_, _)
PlaceByKey(t, e) ==
    IF t = <<>> THEN <<e>>
    ELSE IF e.key < Head(t).key THEN <<e>> \o t
    ELSE <<Head(t)>> \o PlaceByKey(Tail(t), e)

\* the new entry goes after every entry the table holds
TableInsertAtEnd(t, k, v) == Append(WithoutKey(t, k), [key |-> k, value |-> v])

\* Database::insert: the entry replaces the key's entry, at the key's place
TableInsert(t, k, v) == PlaceByKey(WithoutKey(t, k), [key |-> k, value |-> v])

\* Database::iter
Iter(t) == t

\* Database::reverse_iter
ReverseIter(t) == [i \in 1..Len(t) |-> t[Len(t) + 1 - i]]

RECURSIVE LastBelow(_, _, _)
LastBelow(t, k, found) ==
    IF t = <<>> THEN found
    ELSE IF Head(t).key < k THEN LastBelow(Tail(t), k, Head(t))
    ELSE found

RECURSIVE LastUpTo(_, _, _)
LastUpTo(t, k, found) ==
    IF t = <<>> THEN found
    ELSE IF Head(t).key <= k THEN LastUpTo(Tail(t), k, Head(t))
    ELSE found

\* the cursor stops on k itself when k is stored
RecordAtOrPriorTo(t, k) == LastUpTo(t, k, NoRecord)

\* Database::record_prior_to
RecordPriorTo(t, k) == LastBelow(t, k, NoRecord)

ApplyWrite(t, k, w) ==
    IF w = Untouched THEN t
    ELSE IF w = Deleted THEN TableRemove(t, k)
    ELSE TableInsert(t, k, w)

RECURSIVE ApplyWritesFrom(_, _, _)
ApplyWritesFrom(t, writes, k) ==
    IF k > MaxKey THEN t
    ELSE ApplyWritesFrom(ApplyWrite(t, k, writes[k]), writes, k + 1)

\* only the write to the smallest key reaches the table
CommitFirstWrite(t, writes) ==
    IF \A k \in StoreKeys : writes[k] = Untouched THEN t
    ELSE LET k == CHOOSE x \in StoreKeys :
                      /\ writes[x] # Untouched
                      /\ \A y \in StoreKeys : writes[y] # Untouched => x <= y
         IN  ApplyWrite(t, k, writes[k])

\* DbTxMut::commit: every write of the transaction reaches the table
CommitWrites(t, writes) == ApplyWritesFrom(t, writes, 0)

InitStore ==
    /\ IdleExcept("store")
    /\ table = <<>>
    /\ txn_status = "none"
    /\ txn_writes = NoWrites
    /\ txn_base = <<>>
    /\ last_read = NoRead

\* a write made outside an explicit transaction; no write transaction is
\* open (one writer at a time)
DirectWrite(t) ==
    /\ txn_status # "open"
    /\ table' = t
    /\ txn_status' = "none"
    /\ txn_writes' = NoWrites
    /\ txn_base' = <<>>
    /\ last_read' = NoRead

\* db.insert::<TestTable>(&k, &v)
DbInsert ==
    /\ \E k \in StoreKeys, v \in StoreValues : DirectWrite(TableInsert(table, k, v))
    /\ UNCHANGED storeRest

\* db.remove::<TestTable>(&k)
DbRemove ==
    /\ \E k \in StoreKeys : DirectWrite(TableRemove(table, k))
    /\ UNCHANGED storeRest

\* db.clear_table::<TestTable>()
DbClearTable ==
    /\ DirectWrite(<<>>)
    /\ UNCHANGED storeRest

\* db.write_txn()
WriteTxn ==
    /\ txn_status # "open"
    /\ txn_status' = "open"
    /\ txn_writes' = NoWrites
    /\ txn_base' = table
    /\ last_read' = NoRead
    /\ UNCHANGED table
    /\ UNCHANGED storeRest

\* txn.insert::<TestTable>(&k, &v)
TxnInsert ==
    /\ txn_status = "open"
    /\ \E k \in StoreKeys, v \in StoreValues :
          txn_writes' = [txn_writes EXCEPT ![k] = v]
    /\ last_read' = NoRead
    /\ UNCHANGED <<table, txn_status, txn_base>>
    /\ UNCHANGED storeRest

\* txn.remove::<TestTable>(&k)
TxnRemove ==
    /\ txn_status = "open"
    /\ \E k \in StoreKeys : txn_writes' = [txn_writes EXCEPT ![k] = Deleted]
    /\ last_read' = NoRead
    /\ UNCHANGED <<table, txn_status, txn_base>>
    /\ UNCHANGED storeRest

\* txn.commit()
TxnCommit ==
    /\ txn_status = "open"
    /\ table' = CommitWrites(table, txn_writes)
    /\ txn_status' = "committed"
    /\ last_read' = NoRead
    /\ UNCHANGED <<txn_writes, txn_base>>
    /\ UNCHANGED storeRest

\* the transaction ends without commit: dropped, an error, a cancelled task
TxnDropped ==
    /\ txn_status = "open"
    /\ txn_status' = "dropped"
    /\ last_read' = NoRead
    /\ UNCHANGED <<table, txn_writes, txn_base>>
    /\ UNCHANGED storeRest

\* db.iter::<TestTable>()
DbIter ==
    /\ last_read' = [op |-> "iter", entries |-> Iter(table)]
    /\ UNCHANGED <<table, txn_status, txn_writes, txn_base>>
    /\ UNCHANGED storeRest

\* db.reverse_iter::<TestTable>()
DbReverseIter ==
    /\ last_read' = [op |-> "reverse_iter", entries |-> ReverseIter(table)]
    /\ UNCHANGED <<table, txn_status, txn_writes, txn_base>>
    /\ UNCHANGED storeRest

\* db.record_prior_to::<TestTable>(&k)
DbRecordPriorTo ==
    /\ \E k \in 0..(MaxKey + 1) :
          last_read' = [op |-> "record_prior_to", key |-> k,
                        record |-> RecordPriorTo(table, k)]
    /\ UNCHANGED <<table, txn_status, txn_writes, txn_base>>
    /\ UNCHANGED storeRest

NextStore ==
    \/ DbInsert
    \/ DbRemove
    \/ DbClearTable
    \/ WriteTxn
    \/ TxnInsert
    \/ TxnRemove
    \/ TxnCommit
    \/ TxnDropped
    \/ DbIter
    \/ DbReverseIter
    \/ DbRecordPriorTo

SpecStore == InitStore /\ [][NextStore]_vars

\* ========================================================================
\* SpecSeal: StorageInner::build_and_execute against the provider's latest
\* header
\* ========================================================================
MaxBestBlock == 3       \* blocks the storage builds
MaxCanonicalNumber == 2 \* number the canonical tip reaches

BlockContents == {"x", "y"}   \* what the transactions make of a block

GenesisHeader == [number |-> 0, parent_hash |-> 0, transactions_root |-> "genesis"]

\* Header::seal
Seal(h, hash) == [header |-> h, hash |-> hash]

\* StorageInner::build_header_template: number and parent hash
HeaderTemplate(parent, content) ==
    [number |-> parent.header.number + 1, parent_hash |-> parent.hash,
     transactions_root |-> content]

\* the header insert_new_block stores for a given header
StoredHeader(h) == [h EXCEPT !.number = best_block + 1, !.parent_hash = best_hash]

\* BlockMakerBuilder::new, Storage::new: the storage starts at the provider's
\* latest header
InitSeal ==
    /\ IdleExcept("seal")
    /\ latest_header = SealSlow(GenesisHeader)
    /\ best_block = GenesisHeader.number
    /\ best_hash = HashSlow(GenesisHeader)
    /\ storage_headers = (0 :> GenesisHeader)
    /\ new_header = NoHeader

\* StorageInner::build_and_execute, with the insert_new_block it calls
BuildAndExecute ==
    /\ best_block < MaxBestBlock
    /\ \E content \in BlockContents :
        LET parent == latest_header
            header == HeaderTemplate(parent, content)
            stored == StoredHeader(header)
        IN  /\ best_hash' = HashSlow(stored)
            /\ best_block' = stored.number
            /\ storage_headers' =
                  [n \in DOMAIN storage_headers \union {stored.number} |->
                      IF n = stored.number THEN stored ELSE storage_headers[n]]
            /\ new_header' = Seal(header, HashSlow(stored))
    /\ UNCHANGED latest_header
    /\ UNCHANGED sealRest

\* the canonical chain gets a block; the provider's latest header advances
CanonicalTipAdvances ==
    /\ latest_header.header.number < MaxCanonicalNumber
    /\ \E content \in BlockContents :
          latest_header' = SealSlow([number |-> latest_header.header.number + 1,
                                     parent_hash |-> latest_header.hash,
                                     transactions_root |-> content])
    /\ UNCHANGED <<best_block, best_hash, storage_headers, new_header>>
    /\ UNCHANGED sealRest

NextSeal ==
    \/ BuildAndExecute
    \/ CanonicalTipAdvances

SpecSeal == InitSeal /\ [][NextSeal]_vars

\* ========================================================================
\* SpecLoop: the task of ConsensusNetwork::run, its exits and panics
\* ========================================================================
MaxHandles == 2     \* NetworkHandle clones handed out before run()

\* process_event(event).await? : an Err ends the task
ExitWithErr(cause) ==
    /\ task_exit' = "Err"
    /\ exit_cause' = cause

\* run() is called on a new network; the callers hold their handles. The
\* network keeps its own sender of the command channel (field `handle`), so
\* commands.recv() yields None only after the task itself is gone.
InitLoop ==
    /\ IdleExcept("loop")
    /\ task_exit = "running"
    /\ exit_cause = "none"
    /\ pending_dials = {}
    /\ handles_alive \in 1..MaxHandles
    /\ events_queued = 0
    /\ receivers = [r \in RequestIds |-> "unused"]

\* a caller drops its NetworkHandle
NetworkHandleDropped ==
    /\ handles_alive > 0
    /\ handles_alive' = handles_alive - 1
    /\ UNCHANGED <<task_exit, exit_cause, pending_dials, events_queued, receivers>>
    /\ UNCHANGED loopRest

\* process_swarm_command, SwarmCommand::Dial
DialCommand ==
    /\ task_exit = "running"
    /\ handles_alive > 0
    /\ \E peer_id \in NetPeers :
        IF peer_id \notin pending_dials
        THEN \* swarm.dial: Ok keeps the reply sender, Err answers it at once
             /\ \E dialed \in BOOLEAN :
                   pending_dials' = IF dialed THEN pending_dials \cup {peer_id}
                                    ELSE pending_dials
             /\ UNCHANGED <<task_exit, exit_cause>>
        ELSE \* todo!("Already dialed peer.")
             /\ task_exit' = "panicked"
             /\ exit_cause' = "Dial"
             /\ UNCHANGED pending_dials
    /\ UNCHANGED <<handles_alive, events_queued, receivers>>
    /\ UNCHANGED loopRest

\* process_event, SwarmEvent::ConnectionEstablished for a peer we dialed
DialConnectionEstablished ==
    /\ task_exit = "running"
    /\ \E peer_id \in pending_dials : pending_dials' = pending_dials \ {peer_id}
    /\ UNCHANGED <<task_exit, exit_cause, handles_alive, events_queued, receivers>>
    /\ UNCHANGED loopRest

\* process_event, SwarmEvent::OutgoingConnectionError
DialOutgoingConnectionError ==
    /\ task_exit = "running"
    /\ \E peer_id \in pending_dials : pending_dials' = pending_dials \ {peer_id}
    /\ UNCHANGED <<task_exit, exit_cause, handles_alive, events_queued, receivers>>
    /\ UNCHANGED loopRest

\* process_swarm_command, SwarmCommand::SendRequest
RequestSent ==
    /\ task_exit = "running"
    /\ handles_alive > 0
    /\ \E r \in {x \in RequestIds : receivers[x] = "unused"} :
          receivers' = [receivers EXCEPT ![r] = "waiting"]
    /\ UNCHANGED <<task_exit, exit_cause, pending_dials, handles_alive, events_queued>>
    /\ UNCHANGED loopRest

\* the caller drops the receiving end of its reply channel
ReplyReceiverDropped ==
    /\ \E r \in {x \in RequestIds : receivers[x] = "waiting"} :
          receivers' = [receivers EXCEPT ![r] = "dropped"]
    /\ UNCHANGED <<task_exit, exit_cause, pending_dials, handles_alive, events_queued>>
    /\ UNCHANGED loopRest

\* process_event, request_response::Message::Response
ResponseArrives ==
    /\ task_exit = "running"
    /\ \E r \in {x \in RequestIds : receivers[x] \in {"waiting", "dropped"}} :
        /\ receivers' = [receivers EXCEPT ![r] = "answered"]
        /\ IF receivers[r] = "waiting"
           THEN UNCHANGED <<task_exit, exit_cause>>
           ELSE \* send fails: return Err(NetworkError::RequestChannelLost)
                ExitWithErr("Response")
    /\ UNCHANGED <<pending_dials, handles_alive, events_queued>>
    /\ UNCHANGED loopRest

\* process_event, an inbound request or a gossip message of an authorized
\* publisher: event_stream.try_send
EventArrives ==
    /\ task_exit = "running"
    /\ \E kind \in {"Request", "Gossip"} :
        IF events_queued < EventStreamCapacity
        THEN /\ events_queued' = events_queued + 1
             /\ UNCHANGED <<task_exit, exit_cause>>
        ELSE \* try_send fails: return Err(e.into())
             /\ ExitWithErr(kind)
             /\ UNCHANGED events_queued
    /\ UNCHANGED <<pending_dials, handles_alive, receivers>>
    /\ UNCHANGED loopRest

\* the handler takes an event from the stream
EventTaken ==
    /\ events_queued > 0
    /\ events_queued' = events_queued - 1
    /\ UNCHANGED <<task_exit, exit_cause, pending_dials, handles_alive, receivers>>
    /\ UNCHANGED loopRest

NextLoop ==
    \/ NetworkHandleDropped
    \/ DialCommand
    \/ DialConnectionEstablished
    \/ DialOutgoingConnectionError
    \/ RequestSent
    \/ ReplyReceiverDropped
    \/ ResponseArrives
    \/ EventArrives
    \/ EventTaken

SpecLoop == InitLoop /\ [][NextLoop]_vars

\* ========================================================================
\* SpecNodeWait: WorkerNode::wait next to start and shutdown
\* ========================================================================
\* the value of internal_lock while wait call w holds the write lock
WaitHolder(w) == MaxNodeCalls + w

\* a caller calls wait and queues for the write lock
CallWait ==
    /\ Len(wait_calls) < MaxWaitCalls
    /\ wait_calls' = Append(wait_calls, "waiting")
    /\ UNCHANGED nodeVars
    /\ UNCHANGED nodeWaitRest

\* WorkerNode::wait gets the write lock and awaits try_join_all under it
WaitBegins(w) ==
    /\ w \in DOMAIN wait_calls /\ wait_calls[w] = "waiting"
    /\ internal_lock = 0
    /\ internal_lock' = WaitHolder(w)
    /\ wait_calls' = [wait_calls EXCEPT ![w] = "joining"]
    /\ UNCHANGED <<node_calls, handles, tx_shutdown, worker_tasks, notified>>
    /\ UNCHANGED nodeWaitRest

\* try_join_all(..).await.unwrap() with every handle completed
WaitReturns(w) ==
    /\ w \in DOMAIN wait_calls /\ wait_calls[w] = "joining"
    /\ JoinedAll(handles, worker_tasks)
    /\ internal_lock' = 0
    /\ wait_calls' = [wait_calls EXCEPT ![w] = "returned"]
    /\ UNCHANGED <<node_calls, handles, tx_shutdown, worker_tasks, notified>>
    /\ UNCHANGED nodeWaitRest

\* try_join_all(..).await.unwrap() with a JoinError: wait panics, the guard is
\* dropped
WaitPanics(w) ==
    /\ w \in DOMAIN wait_calls /\ wait_calls[w] = "joining"
    /\ JoinError(handles, worker_tasks)
    /\ internal_lock' = 0
    /\ wait_calls' = [wait_calls EXCEPT ![w] = "panicked"]
    /\ UNCHANGED <<node_calls, handles, tx_shutdown, worker_tasks, notified>>
    /\ UNCHANGED nodeWaitRest

\* a task that was sent the shutdown signal stops
TaskStopsOnSignal ==
    /\ \E c \in notified, t \in WorkerTasks :
        /\ worker_tasks[c][t] = "running"
        /\ worker_tasks' = [worker_tasks EXCEPT ![c][t] = "done"]
    /\ UNCHANGED <<node_calls, internal_lock, handles, tx_shutdown, notified>>
    /\ UNCHANGED nodeRest

NextNodeWait ==
    \/ NextNode
    \/ CallWait
    \/ \E w \in 1..MaxWaitCalls :
        \/ WaitBegins(w)
        \/ WaitReturns(w)
        \/ WaitPanics(w)

SpecNodeWait == InitNode /\ [][NextNodeWait]_vars

\* every call that can get the lock gets it, every call that can return
\* returns, and the tasks stop once they are signalled
SpecNodeWaitFair ==
    /\ SpecNodeWait
    /\ WF_vars(\E c \in NodeCallIds : StartBegins(c))
    /\ WF_vars(\E c \in NodeCallIds : StartFails(c) \/ StartCompletes(c))
    /\ WF_vars(\E c \in NodeCallIds : ShutdownBegins(c))
    /\ WF_vars(\E c \in NodeCallIds : ShutdownReturns(c))
    /\ WF_vars(\E c \in NodeCallIds : ShutdownPanics(c))
    /\ WF_vars(\E w \in 1..MaxWaitCalls : WaitBegins(w))
    /\ WF_vars(\E w \in 1..MaxWaitCalls : WaitReturns(w))
    /\ WF_vars(\E w \in 1..MaxWaitCalls : WaitPanics(w))
    /\ WF_vars(TaskStopsOnSignal)

\* ========================================================================
\* SpecPayload: execute_consensus_output turning an output into blocks
\* ========================================================================
\* the header of the block the node has executed last when the engine starts
TipHeader(number) ==
    [parent_hash |-> 0, number |-> number, difficulty |-> 0, extra_data |-> 0,
     parent_beacon_block_root |-> 0, gas_used |-> 0]

\* ConsensusOutput::batch_digests: the digest of the batch at each place
BatchDigest(output, place) == [output |-> output, batch |-> place]

\* TNPayload::parent: the hash of the parent header the attributes were built
\* with
PayloadParent(parent_header) == parent_header.hash

\* Faulty variant: the batch index written to the header counts from one.
build_block_from_batch_payload_from_one(parent_header, batch_index, batch_digest, output) ==
    [header |-> SealSlow([parent_hash |-> PayloadParent(parent_header),
                          number |-> parent_header.header.number + 1,
                          difficulty |-> batch_index + 1,
                          extra_data |-> batch_digest,
                          parent_beacon_block_root |-> output,
                          gas_used |-> 1]),
     body |-> batch_digest]

\* build_block_from_batch_payload: header and body of the block for one batch
build_block_from_batch_payload(parent_header, batch_index, batch_digest, output) ==
    [header |-> SealSlow([parent_hash |-> PayloadParent(parent_header),
                          number |-> parent_header.header.number + 1,
                          difficulty |-> batch_index,
                          extra_data |-> batch_digest,
                          parent_beacon_block_root |-> output,
                          gas_used |-> 1]),
     body |-> batch_digest]

\* build_block_from_empty_payload: a block without transactions
build_block_from_empty_payload(parent_header, output) ==
    [header |-> SealSlow([parent_hash |-> PayloadParent(parent_header),
                          number |-> parent_header.header.number + 1,
                          difficulty |-> 0,
                          extra_data |-> 0,
                          parent_beacon_block_root |-> output,
                          gas_used |-> 0]),
     body |-> 0]

InitPayload ==
    /\ IdleExcept("payload")
    /\ payload_args = <<>>
    /\ canonical_header = <<>>
    /\ block_index = 0
    /\ tree_blocks = <<>>
    /\ \E n \in 0..MaxParentNumber :
          chain_info = [canonical_tip |-> SealSlow(TipHeader(n)).hash,
                        head |-> SealSlow(TipHeader(n)),
                        safe |-> SealSlow(TipHeader(n)),
                        finalized |-> SealSlow(TipHeader(n))]
    /\ payload_pc = "idle"
    /\ payload_returned = <<>>
    /\ payload_calls = 0

\* the engine calls execute_consensus_output on the tracked head with the
\* next output; `let mut canonical_header = parent_header`
CallExecuteOutput ==
    /\ payload_pc = "idle"
    /\ payload_calls < MaxPayloadCalls
    /\ \E k \in 0..MaxPayloadBatches :
          payload_args' = [parent_header |-> chain_info.head, batches |-> k,
                           output |-> payload_calls + 1, tree_len |-> Len(tree_blocks)]
    /\ canonical_header' = chain_info.head
    /\ block_index' = 0
    /\ payload_calls' = payload_calls + 1
    /\ payload_returned' = <<>>
    /\ payload_pc' = "blocks"
    /\ UNCHANGED <<tree_blocks, chain_info>>
    /\ UNCHANGED payloadRest

\* sealed_blocks_with_senders.is_empty(): one block from the empty payload
InsertEmptyBlock ==
    /\ payload_pc = "blocks"
    /\ payload_args.batches = 0
    /\ LET next_canonical_block ==
               build_block_from_empty_payload(canonical_header, payload_args.output)
       IN /\ canonical_header' = next_canonical_block.header
          /\ tree_blocks' = Append(tree_blocks, next_canonical_block)
    /\ payload_pc' = "inserted"
    /\ UNCHANGED <<payload_args, block_index, chain_info, payload_returned, payload_calls>>
    /\ UNCHANGED payloadRest

\* one pass of `for (block_index, block) in ..enumerate()`
InsertBatchBlock ==
    /\ payload_pc = "blocks"
    /\ payload_args.batches > 0
    /\ LET next_canonical_block ==
               build_block_from_batch_payload(canonical_header, block_index,
                   BatchDigest(payload_args.output, block_index + 1), payload_args.output)
       IN /\ canonical_header' = next_canonical_block.header
          /\ tree_blocks' = Append(tree_blocks, next_canonical_block)
    /\ block_index' = block_index + 1
    /\ payload_pc' = IF block_index + 1 = payload_args.batches THEN "inserted" ELSE "blocks"
    /\ UNCHANGED <<payload_args, chain_info, payload_returned, payload_calls>>
    /\ UNCHANGED payloadRest

\* building or inserting a block fails: `?` returns the error
InsertBlockFails ==
    /\ payload_pc = "blocks"
    /\ payload_pc' = "failed"
    /\ payload_returned' = <<[err |-> "insert"]>>
    /\ UNCHANGED <<payload_args, canonical_header, block_index, tree_blocks, chain_info,
                   payload_calls>>
    /\ UNCHANGED payloadRest

\* provider.make_canonical(canonical_header.hash())? and set_canonical_head
MakeLastBlockCanonical ==
    /\ payload_pc = "inserted"
    /\ \/ /\ chain_info' = [chain_info EXCEPT !.canonical_tip = canonical_header.hash,
                                              !.head = canonical_header]
          /\ payload_pc' = "canonical"
          /\ UNCHANGED payload_returned
       \/ /\ payload_pc' = "failed"
          /\ payload_returned' = <<[err |-> "make_canonical"]>>
          /\ UNCHANGED chain_info
    /\ UNCHANGED <<payload_args, canonical_header, block_index, tree_blocks, payload_calls>>
    /\ UNCHANGED payloadRest

\* provider.finalize_block(canonical_header.number)?, set_finalized, set_safe
\* and Ok(canonical_header)
FinalizeLastBlock ==
    /\ payload_pc = "canonical"
    /\ \/ /\ chain_info' = [chain_info EXCEPT !.finalized = canonical_header,
                                              !.safe = canonical_header]
          /\ payload_returned' = <<canonical_header>>
          /\ payload_pc' = "idle"
       \/ /\ payload_pc' = "failed"
          /\ payload_returned' = <<[err |-> "finalize_block"]>>
          /\ UNCHANGED chain_info
    /\ UNCHANGED <<payload_args, canonical_header, block_index, tree_blocks, payload_calls>>
    /\ UNCHANGED payloadRest

NextPayload ==
    \/ CallExecuteOutput \/ InsertEmptyBlock \/ InsertBatchBlock \/ InsertBlockFails
    \/ MakeLastBlockCanonical \/ FinalizeLastBlock

SpecPayload == InitPayload /\ [][NextPayload]_vars

\* ========================================================================
\* SpecBind: the bind loop of Primary::start_network
\* ========================================================================
\* `if tries > 3`
BindTries == 3

\* errors an attempt to bind and start the network can return
BindErrors == {"AddrInUse", "AddrNotAvailable", "PermissionDenied"}

\* tries > 3
TriesExhausted(n) == n > BindTries

\* `let mut tries = 0` and the first pass of the loop
InitBind ==
    /\ IdleExcept("bind")
    /\ tries = 0
    /\ bind_attempts = 0
    /\ bind_errors = <<>>
    /\ bind_pc = "binding"

\* Ok(network) => break network
BindSucceeds ==
    /\ bind_pc = "binding"
    /\ bind_attempts' = bind_attempts + 1
    /\ bind_pc' = "bound"
    /\ UNCHANGED <<tries, bind_errors>>
    /\ UNCHANGED bindRest

\* Err(e): the counter is raised, then the loop panics or goes to sleep
BindFails ==
    /\ bind_pc = "binding"
    /\ \E e \in BindErrors : bind_errors' = Append(bind_errors, e)
    /\ bind_attempts' = bind_attempts + 1
    /\ tries' = tries + 1
    /\ bind_pc' = IF TriesExhausted(tries + 1) THEN "panicked" ELSE "sleeping"
    /\ UNCHANGED bindRest

\* std::thread::sleep(Duration::from_secs(1)) returns and the loop tries again
SleepEnds ==
    /\ bind_pc = "sleeping"
    /\ bind_pc' = "binding"
    /\ UNCHANGED <<tries, bind_attempts, bind_errors>>
    /\ UNCHANGED bindRest

NextBind == BindSucceeds \/ BindFails \/ SleepEnds

SpecBind == InitBind /\ [][NextBind]_vars

\* ========================================================================
\* Claims about the builder (SpecBuild)
\* ========================================================================
Built == pc \in {"built", "validated"}

Included == TxsOf(pool, transactions)

\* C1: every block build_worker_block returns is accepted by validate_block
\* configured with the same gas and byte caps, against the same parent.
C1_RoundTrip == pc = "validated" => result[1].err = "Ok"

\* C4: after every pass of the build loop the declared gas of the included
\* transactions is within the gas cap, their size within the byte cap, and
\* the running total (the header's gas_used once sealed) equals the gas sum.
C4_BuilderWithinCaps ==
    /\ GasOf(Included) <= GasCap
    /\ SizeOf(Included) <= SizeCap
    /\ total_possible_gas = GasOf(Included)
    /\ total_bytes_size = SizeOf(Included)
    /\ Built => /\ block[1].transactions = Included
                /\ block[1].sealed_header.header.gas_used = GasOf(block[1].transactions)
    /\ pc = "batch_built" => block[1].transactions = Included

C4_Witness ==
    /\ pc = "built"
    /\ marked # <<>>
    /\ Len(transactions) >= 2
    /\ total_possible_gas = GasCap

\* C6: once the builder has marked a transaction invalid, no transaction of the
\* same sender with a higher nonce is in the block.
C6_NoDependentOfInvalid ==
    \A k \in 1..Len(marked) : Descendants(pool, marked[k]) \cap Range(transactions) = {}

\* C7: a transaction whose own gas limit exceeds the gas cap is never in the
\* block, and each time the iterator yields it the builder marks it invalid,
\* which happens at most once in a build.
C7_OversizedNeverIncluded ==
    \A i \in 1..Len(pool) :
        pool[i].gas > GasCap =>
            /\ i \notin Range(transactions)
            /\ Count(yielded, i) <= 1
            /\ Count(marked, i) = Count(yielded, i)

C7_Witness ==
    /\ pc \in {"built", "batch_built"}
    /\ transactions # <<>>
    /\ \E i \in 1..Len(pool) :
          /\ pool[i].gas > GasCap
          /\ Count(marked, i) = 1
          /\ Count(yielded, i) = 1
          /\ \E k \in 1..Len(yielded) : yielded[k] = i /\ k < Len(yielded)

\* C8: the build always returns: best_txs.next() never spins, the loop runs at
\* most once per pending transaction, and an empty pool gives an empty block
\* with gas_used 0.
C8_BuildReturns ==
    /\ pc # "hung"
    /\ Len(yielded) <= Len(pool)
    /\ (pool = <<>> /\ pc = "built") =>
          /\ block[1].transactions = <<>>
          /\ block[1].sealed_header.header.gas_used = 0

\* ========================================================================
\* Claims about the validator (SpecValidate)
\* ========================================================================
PeerHeader == block[1].sealed_header.header

HashValid == validate_block_hash(block[1].sealed_header) = Ok

RootValid == validate_transactions_root(block[1].transactions, block[1].sealed_header) = Ok

ParentValid ==
    /\ PeerHeader.parent_hash \in DOMAIN Chain
    /\ Chain[PeerHeader.parent_hash].number + 1 = PeerHeader.number

TimestampValid ==
    /\ PeerHeader.parent_hash \in DOMAIN Chain
    /\ PeerHeader.timestamp > Chain[PeerHeader.parent_hash].timestamp

\* The error the documented order of checks gives: sealed hash, transactions
\* root, parent lookup and number, timestamp, gas, byte size, sentinel fields.
DocumentedOrderError(b) ==
    LET sealed == b.sealed_header
        header == sealed.header
        txs == b.transactions
    IN IF validate_block_hash(sealed) # Ok THEN "BlockHash"
       ELSE IF validate_transactions_root(txs, sealed) # Ok THEN "TransactionRootMismatch"
       ELSE IF header.parent_hash \notin DOMAIN Chain THEN "CanonicalChain"
       ELSE validate_block(b, PeerSizeCap, PeerGasCap).err

\* C3: validate_block returns the error of the first failing check in the
\* order hash, transactions root, parent, timestamp, gas, size, sentinels.
C3_ChecksInDocumentedOrder ==
    pc = "validated" => result[1].err = DocumentedOrderError(block[1])

GasPreconditions ==
    /\ pc = "validated"
    /\ HashValid /\ RootValid /\ ParentValid /\ TimestampValid
    /\ PeerHeader.gas_limit = PeerGasCap
    /\ PeerHeader.gas_used # GasOf(block[1].transactions)

IsGasUsedMismatch(r, expected, received) ==
    /\ r.err = "HeaderGasUsedMismatch"
    /\ r.expected = expected
    /\ r.received = received

\* C5 as stated: with hash, root, parent, timestamp and gas_limit valid, every
\* gas_used that differs from the transactions' gas sum is answered with
\* HeaderGasUsedMismatch{expected: the sum, received: gas_used}.
C5_AnyMismatchReported ==
    GasPreconditions =>
        IsGasUsedMismatch(result[1], GasOf(block[1].transactions), PeerHeader.gas_used)

\* C5 amended: the same, for a non-empty transaction list and a gas_used below
\* the header's gas_limit.
C5_MismatchReportedBelowLimit ==
    (/\ GasPreconditions
     /\ block[1].transactions # <<>>
     /\ PeerHeader.gas_used < PeerHeader.gas_limit) =>
        IsGasUsedMismatch(result[1], GasOf(block[1].transactions), PeerHeader.gas_used)

C5_Witness ==
    /\ GasPreconditions
    /\ block[1].transactions # <<>>
    /\ PeerHeader.gas_used < PeerHeader.gas_limit
    /\ PeerHeader.gas_used > 0
    /\ result[1].err = "HeaderGasUsedMismatch"

\* ========================================================================
\* Claims about the RequestVote endpoint (SpecVote)
\* ========================================================================
\* C9: the authority never signs votes for two different headers of the same
\* (round, author), whatever the interleaving of the RequestVote calls.
C9_OneVotePerRoundAuthor ==
    \A v \in signed, w \in signed :
        (v.author = w.author /\ v.round = w.round) => v.digest = w.digest

\* a proposer sent two conflicting headers of one round while the first was in
\* flight: the second was answered with the limiter's error, the first with a vote
C9_Witness ==
    \E i \in 1..Len(replies), j \in 1..Len(replies) :
        /\ i < j
        /\ replies[i].answer = "InflightLimit"
        /\ replies[j].answer = "Vote"
        /\ replies[i].peer = replies[j].peer
        /\ replies[i].header.author = replies[j].header.author
        /\ replies[i].header.round = replies[j].header.round
        /\ replies[i].header.payload # replies[j].header.payload

\* ========================================================================
\* Claims about the Certifier (SpecCertify)
\* ========================================================================
\* C10: the aggregated weight is the stake of the distinct accepted voters (a
\* duplicate adds nothing), there is a certificate exactly when that weight has
\* reached the quorum threshold, and the certificate was formed by the vote
\* that first reached it, signed by the voters accepted until then.
C10_CertificateWhenQuorumFirstReached ==
    /\ weight = StakeOf(committee, accepted)
    /\ (certificate # <<>>) <=> (weight >= QuorumThreshold(committee))
    /\ certificate # <<>> =>
          /\ certificate[1].signers = accepted
          /\ certificate[1].stake = weight
          /\ certificate[1].last \in accepted
          /\ weight - committee[certificate[1].last] < QuorumThreshold(committee)

\* a duplicate was received below the threshold, and the certificate was then
\* formed while some authority had not voted
C10_Witness ==
    /\ certificate # <<>>
    /\ accepted # Authorities
    /\ Len(votes_received) > Cardinality(accepted)
    /\ votes_received[Len(votes_received)] = certificate[1].last

\* ========================================================================
\* Claims about the DAG orderer (SpecOrder)
\* ========================================================================
CanonicalOrder == [i \in 1..Cardinality(Authorities) |-> i]

RankedDescending(ranking) ==
    \A i \in 1..Len(ranking) - 1 :
        \/ ranking[i].score > ranking[i + 1].score
        \/ (ranking[i].score = ranking[i + 1].score /\ ranking[i].id > ranking[i + 1].id)

C11_EveryOutputInOrder ==
    /\ lagged = 0
    /\ \A i \in 1..Len(delivered) : delivered[i] = i

\* ========================================================================
\* Claims about execution and recovery (SpecExecute)
\* ========================================================================
\* C12: after a restart consensus re-delivers from the sub-dag after the last
\* one that was fully executed.
C12_RedeliversAfterLastExecuted ==
    redeliver_from # <<>> => redeliver_from[1] = completed + 1

\* C13: the finalized and safe blocks are the last block of an output whose
\* blocks were all executed and inserted, and after a failed block execution
\* they, and last_executed_output, are what they were before the call.
C13_FinalizedOnlyAfterWholeOutput ==
    /\ db_finalized > 0 =>
          /\ db_finalized <= Len(chain_db)
          /\ db_finalized >= BlocksOf(last_executed_output)
          /\ \A i \in 0..(BlocksOf(last_executed_output) - 1) :
                chain_db[db_finalized - i]
                    = NewBlock(last_executed_output, BlocksOf(last_executed_output) - 1 - i)
    /\ tracker.finalized = db_finalized /\ tracker.safe = db_finalized
    /\ exec_pc = "failed_block" =>
          /\ db_finalized = exec.before
          /\ last_executed_output = completed

\* the second batch of the second output failed after the first was inserted
C13_Witness ==
    /\ exec_pc = "failed_block"
    /\ exec.batch = 1
    /\ tree # <<>>
    /\ exec.before > 0
    /\ db_finalized = exec.before
    /\ last_executed_output = exec.output - 1

\* ========================================================================
\* Further claims about validate_block (SpecValidate)
\* ========================================================================
\* everything validate_block looks at before the unused header fields is valid
ValidBeforeEmptyValues ==
    /\ HashValid /\ RootValid /\ ParentValid /\ TimestampValid
    /\ validate_block_gas(PeerHeader, block[1].transactions, PeerGasCap) = Ok
    /\ validate_block_size_bytes(block[1].transactions, PeerSizeCap) = Ok

OnlyNonSentinel(k) ==
    /\ PeerHeader[SentinelFields[k]] # 0
    /\ \A j \in 1..Len(SentinelFields) : j # k => PeerHeader[SentinelFields[j]] = 0

\* C14: validate_block answers Ok only when every unused header field holds its
\* sentinel, and a block that is valid but for one such field is rejected with
\* that field's error carrying the field's value.
C14_SentinelFieldsEnforced ==
    pc = "validated" =>
        /\ result[1] = Ok =>
              \A k \in 1..Len(SentinelFields) : PeerHeader[SentinelFields[k]] = 0
        /\ \A k \in 1..Len(SentinelFields) :
              (ValidBeforeEmptyValues /\ OnlyNonSentinel(k)) =>
                  result[1] = [err |-> EmptyValueError(SentinelFields[k]),
                               value |-> PeerHeader[SentinelFields[k]]]

C14_Witness ==
    /\ pc = "validated"
    /\ ValidBeforeEmptyValues
    /\ OnlyNonSentinel(Len(SentinelFields))
    /\ result[1].err = "NonEmptyRequestsRoot"

\* C15: with a correct sealed hash and transactions root, an unknown parent
\* hash is answered with CanonicalChain carrying it, and a known parent whose
\* number + 1 is not the block's number with ParentBlockNumberMismatch
\* carrying both numbers.
C15_ParentErrors ==
    (pc = "validated" /\ HashValid /\ RootValid) =>
        /\ PeerHeader.parent_hash \notin DOMAIN Chain =>
              result[1] = [err |-> "CanonicalChain", block_hash |-> PeerHeader.parent_hash]
        /\ (/\ PeerHeader.parent_hash \in DOMAIN Chain
            /\ Chain[PeerHeader.parent_hash].number + 1 # PeerHeader.number) =>
              result[1] = [err |-> "ParentBlockNumberMismatch",
                           parent_block_number |-> Chain[PeerHeader.parent_hash].number,
                           block_number |-> PeerHeader.number]

\* a known parent and a block that carries the parent's own number
C15_Witness ==
    /\ pc = "validated" /\ HashValid /\ RootValid
    /\ PeerHeader.parent_hash \in DOMAIN Chain
    /\ Chain[PeerHeader.parent_hash].number = PeerHeader.number
    /\ result[1].err = "ParentBlockNumberMismatch"

\* ========================================================================
\* Further claims about the RequestVote endpoint (SpecVote)
\* ========================================================================
LastReply == replies'[Len(replies')]

\* while a call of peer p is in flight no other call of p starts, and a call
\* of p that is answered without a vote is answered with the limiter's error
RefusedWhileBusy(p) ==
    inflight[p] # {} =>
        /\ inflight'[p] \subseteq inflight[p]
        /\ (/\ Len(replies') = Len(replies) + 1
            /\ LastReply.peer = p
            /\ LastReply.answer # "Vote") =>
              (LastReply.answer = "InflightLimit" /\ UNCHANGED <<inflight, vote_store, signed>>)

\* C16: at most one RequestVote of a peer is being processed at any moment, and
\* a RequestVote arriving from a peer that has one in flight is answered with
\* an error, neither queued nor processed.
C16_OneInflightPerPeer ==
    /\ [](\A p \in Peers : Cardinality(inflight[p]) <= 1)
    /\ [][\A p \in Peers : RefusedWhileBusy(p)]_vars

\* both peers have a call in flight, and a further call of one of them was
\* answered with the limiter's error
C16_Witness ==
    /\ \A p \in Peers : inflight[p] # {}
    /\ replies # <<>>
    /\ replies[Len(replies)].answer = "InflightLimit"

\* ========================================================================
\* Claims about Primary::spawn (SpecSpawn)
\* ========================================================================
\* C17: a Proposer task runs only on a node whose mode was CVV when spawn read
\* it, and a node spawned in another mode never emits a header.
C17_ProposerOnlyIfCvv ==
    /\ "Proposer" \in Range(tasks) =>
          (mode_at_spawn # <<>> /\ mode_at_spawn[1] \in {"CvvActive", "CvvInactive"})
    /\ (mode_at_spawn # <<>> /\ mode_at_spawn[1] = "Observer") => headers_emitted = 0
    /\ headers_emitted > 0 => "Proposer" \in Range(tasks)

\* an observer was spawned: the other tasks run, no Proposer, and the mode has
\* since become CVV
C17_Witness ==
    /\ mode_at_spawn = <<"Observer">>
    /\ "Certifier" \in Range(tasks)
    /\ "Proposer" \notin Range(tasks)
    /\ node_mode = "CvvActive"

\* ========================================================================
\* Claims about the consensus network (SpecNet)
\* ========================================================================
\* the last gossip message named a source that was authorized when processed
LastGossipAuthorized ==
    /\ last_gossip[1].source # NoSource
    /\ last_gossip[1].source \in last_gossip[1].publishers

Delivered == UNION {Range(reply_values[c]) : c \in ReplyChannels}

\* C19: each response is delivered to the reply channel that the SendRequest
\* with the same request id carried, and to no other; each reply channel gets
\* at most one response; the pending_requests entry of a request is gone once
\* its response is delivered.
C19_RequestResponseCorrelation ==
    /\ \A c \in ReplyChannels : \A id \in Range(reply_values[c]) :
          <<id, c>> \in request_reply
    /\ \A c \in ReplyChannels : Len(reply_values[c]) <= 1
    /\ \A id \in Delivered : MapGet(pending_requests, id) = {}
    /\ \A c \in ReplyChannels : reply_state[c] = "answered" <=> reply_values[c] # <<>>

\* two requests whose reply channels were created in the other order, the
\* second answered first, the first still pending
C19_Witness ==
    /\ request_reply = {<<1, 2>>, <<2, 1>>}
    /\ reply_values[1] = <<2>>
    /\ reply_values[2] = <<>>
    /\ pending_requests = {<<1, 2>>}

\* C20: every request is eventually answered, by a response or by a local
\* error, also after an outbound failure, and no pending_requests entry stays
\* forever.
C20_EveryRequestAnswered ==
    /\ \A c \in ReplyChannels :
          (reply_state[c] = "waiting") ~> (reply_state[c] # "waiting")
    /\ \A id \in RequestIds :
          (MapGet(pending_requests, id) # {}) ~> (MapGet(pending_requests, id) = {})

\* ========================================================================
\* Claims about the worker node (SpecNode)
\* ========================================================================
StartCalls == {c \in DOMAIN node_calls : node_calls[c].op = "start"}

ShutdownCalls == {c \in DOMAIN node_calls : node_calls[c].op = "shutdown"}

\* a start call returns NodeAlreadyRunning exactly when it found a task of the
\* kept handles unfinished
RefusedIffRunning ==
    \A c \in StartCalls :
        node_calls[c].pc # "waiting" =>
            (node_calls[c].result = "NodeAlreadyRunning" <=> node_calls[c].found_running)

\* C21 (as stated): start on a running node returns NodeAlreadyRunning, and of
\* two racing start calls exactly one starts the worker and the other returns
\* NodeAlreadyRunning.
C21_ExactlyOneStartWins ==
    /\ RefusedIffRunning
    /\ (/\ Len(node_calls) = 2
        /\ StartCalls = {1, 2}
        /\ \A c \in StartCalls : node_calls[c].pc = "returned")
       => \E c \in StartCalls :
            /\ node_calls[c].result = "Ok"
            /\ \A d \in StartCalls \ {c} : node_calls[d].result = "NodeAlreadyRunning"

\* C21 (amended): a start call that finds the node running returns
\* NodeAlreadyRunning and changes neither the handles, the shutdown notifier
\* nor any task; start calls run one at a time, and a later one is refused
\* exactly when a task of the handles kept by an earlier one is unfinished.
C21_StartRefusedWhileRunning ==
    /\ []RefusedIffRunning
    /\ [](\A c \in StartCalls : node_calls[c].pc = "spawned" => internal_lock = c)
    /\ [][\A c \in StartCalls :
            (node_calls[c].pc = "waiting" /\ node_calls'[c].result = "NodeAlreadyRunning")
            => UNCHANGED <<internal_lock, handles, tx_shutdown, worker_tasks, notified>>]_vars

\* the second of two start calls was refused while the tasks of the first run
C21_Witness ==
    /\ StartCalls = {1, 2}
    /\ node_calls[1].result = "Ok"
    /\ node_calls[2].result = "NodeAlreadyRunning"
    /\ handles = 1
    /\ \A t \in WorkerTasks : worker_tasks[1][t] = "running"

\* C22: shutdown on a running node signals the shutdown notifier and returns
\* only after every kept task handle has completed, so that the node is not
\* running when shutdown returns; on a node that is not running it returns at
\* once and changes nothing.
C22_ShutdownWaitsForHandles ==
    /\ [](\A c \in ShutdownCalls :
            node_calls[c].pc = "returned" => ~node_calls[c].left_running)
    /\ [](\A c \in ShutdownCalls :
            node_calls[c].pc = "joining" => (internal_lock = c /\ handles \in notified))
    /\ [][\A c \in ShutdownCalls :
            (node_calls[c].pc = "waiting" /\ node_calls'[c].pc = "returned")
            => (/\ ~node_calls'[c].found_running
                /\ UNCHANGED <<internal_lock, handles, tx_shutdown, worker_tasks,
                               notified>>)]_vars

\* a shutdown found the node running and returned after its tasks had ended
C22_Witness ==
    /\ \E c \in ShutdownCalls :
        /\ node_calls[c].pc = "returned"
        /\ node_calls[c].found_running
    /\ handles # 0
    /\ handles \in notified
    /\ \A t \in WorkerTasks : worker_tasks[handles][t] = "done"

\* ========================================================================
\* Claims about the block provider (SpecProvide)
\* ========================================================================
\* C23: the builder is acknowledged for a block only after the quorum waiter
\* acknowledged that block, and the block is then in WorkerBlocks under its
\* digest; a block the quorum waiter never acknowledges is never acknowledged
\* to the builder.
C23_BuilderAckAfterQuorumAndStore ==
    /\ \A k \in 1..Len(builder_acked) :
        /\ builder_acked[k] \in quorum_acked
        /\ <<BlockDigest(provider_blocks[builder_acked[k]]),
             provider_blocks[builder_acked[k]].txs>> \in worker_blocks
    /\ \A i \in DOMAIN provider_blocks :
        provider_blocks[i].at = "dropped" /\ i \notin quorum_acked
            => i \notin Range(builder_acked)
    /\ \A k, l \in 1..Len(builder_acked) : builder_acked[k] = builder_acked[l] => k = l

\* one block acknowledged and stored, another given up by the quorum waiter,
\* a third still with the quorum waiter
C23_Witness ==
    /\ Len(provider_blocks) = 3
    /\ Len(builder_acked) = 1
    /\ \E i \in DOMAIN provider_blocks :
        provider_blocks[i].at = "dropped" /\ i \notin quorum_acked
    /\ \E i \in DOMAIN provider_blocks : provider_blocks[i].at = "quorum_waiter"

\* ========================================================================
\* Claims about timestamps (SpecStamp)
\* ========================================================================
\* C24: when the clock reading equals the parent's timestamp the built
\* timestamp is the parent's plus one, and for every other reading it is the
\* reading itself, for build_worker_block, build_batch and
\* build_header_template alike.
C24_TimestampAdjustedOnlyWhenEqual ==
    stamped # <<>> =>
        /\ clock_reading = parent_timestamp_read
              => stamped[1].timestamp = parent_timestamp_read + 1
        /\ clock_reading # parent_timestamp_read
              => stamped[1].timestamp = clock_reading

\* the header template was built with the clock at the parent's timestamp
C24_Witness ==
    /\ stamped # <<>>
    /\ stamped[1].builder = "build_header_template"
    /\ clock_reading = parent_timestamp_read
    /\ stamped[1].timestamp = clock_reading + 1

\* ========================================================================
\* Claims about the reputation scores (SpecScores)
\* ========================================================================
\* C25: authorities_by_score_desc returns every authority of the map exactly
\* once, by score descending and among equal scores by identifier descending,
\* and the same list whatever order the map iterates in.
C25_RankingTotalAndOrderFree ==
    \A o \in IterationOrdersOf(scores_per_authority) :
        LET r == AuthoritiesByScoreDesc(scores_per_authority, o)
        IN  /\ Len(r) = Cardinality(DOMAIN scores_per_authority)
            /\ {r[i].id : i \in 1..Len(r)} = DOMAIN scores_per_authority
            /\ \A i \in 1..Len(r) : r[i].score = scores_per_authority[r[i].id]
            /\ \A i, j \in 1..Len(r) :
                  i < j => \/ r[i].score > r[j].score
                           \/ r[i].score = r[j].score /\ r[i].id > r[j].id
            /\ \A p \in IterationOrdersOf(scores_per_authority) :
                  AuthoritiesByScoreDesc(scores_per_authority, p) = r

\* three authorities inserted by add_score, two of them with equal scores
C25_Witness ==
    /\ DOMAIN scores_per_authority = {1, 2, 4}
    /\ scores_per_authority[1] = 1
    /\ scores_per_authority[4] = 1
    /\ scores_per_authority[2] = 2

\* ========================================================================
\* Claims about the persistent store (SpecStore)
\* ========================================================================
\* what a key holds once the transaction's writes are in: its last write, or
\* what it held when the transaction began
AfterWrites(k) ==
    IF txn_writes[k] = Untouched THEN Get(txn_base, k)
    ELSE IF txn_writes[k] = Deleted THEN NoValue
    ELSE txn_writes[k]

\* C26: a write transaction is atomic: while it is open and after it ended
\* without commit the table is what it was when the transaction began; after
\* commit every key holds what the transaction wrote to it.
C26_WriteTxnAtomic ==
    /\ txn_status \in {"open", "dropped"} => table = txn_base
    /\ txn_status = "committed" =>
          \A k \in StoreKeys : Get(table, k) = AfterWrites(k)
    /\ last_read.op = "iter" /\ txn_status \in {"open", "dropped"} =>
          last_read.entries = txn_base

\* a committed transaction that overwrote one key, removed another and
\* inserted a third
C26_Witness ==
    /\ txn_status = "committed"
    /\ Get(txn_base, 0) = "a" /\ txn_writes[0] = "b" /\ Get(table, 0) = "b"
    /\ Get(txn_base, 1) = "a" /\ txn_writes[1] = Deleted /\ Get(table, 1) = NoValue
    /\ Get(txn_base, 2) = NoValue /\ txn_writes[2] = "a" /\ Get(table, 2) = "a"

\* the keys the table holds, each with its value
Content(t) == {[key |-> k, value |-> Get(t, k)] : k \in {x \in StoreKeys : Get(t, x) # NoValue}}

GreatestBelow(t, k) ==
    IF \E i \in 1..Len(t) : t[i].key < k
    THEN t[CHOOSE i \in 1..Len(t) :
               /\ t[i].key < k
               /\ \A j \in 1..Len(t) : t[j].key < k => t[j].key <= t[i].key]
    ELSE NoRecord

C28_GapWitness ==
    /\ last_read.op = "record_prior_to"
    /\ last_read.key = 1
    /\ last_read.record.key = 0
    /\ Get(table, 1) = NoValue
    /\ Get(table, 2) # NoValue

\* ========================================================================
\* Claims about the sealed header of build_and_execute (SpecSeal)
\* ========================================================================
\* C29: the SealedHeader build_and_execute returns carries the hash of its own
\* fields, and its number and parent hash are those of the header
\* insert_new_block stored.
C29_ReturnedHeaderSelfConsistent ==
    new_header # NoHeader =>
        /\ new_header.hash = HashSlow(new_header.header)
        /\ new_header.header.number = storage_headers[best_block].number
        /\ new_header.header.parent_hash = storage_headers[best_block].parent_hash

\* the first block built while storage and provider agree on the tip is
\* returned with its own hash
C29_FirstBlockConsistent ==
    new_header # NoHeader /\ best_block = 1 /\ latest_header.header.number = 0 =>
        /\ new_header.hash = HashSlow(new_header.header)
        /\ new_header.header = storage_headers[best_block]

\* a second block was built while the provider's latest header is still genesis
C29_SecondBlockBuilt ==
    /\ best_block = 2
    /\ latest_header = SealSlow(GenesisHeader)
    /\ new_header # NoHeader

\* ========================================================================
\* Claims about the network task (SpecLoop)
\* ========================================================================
\* C30: while a NetworkHandle is held the task of ConsensusNetwork::run is
\* running: no command and no event makes it return or panic.
C30_TaskRunsWhileHandlesHeld ==
    handles_alive > 0 => task_exit = "running"

\* the three cases the task does not survive
C30_DialPanics == task_exit = "panicked" /\ exit_cause = "Dial"

C30_ResponseErr == task_exit = "Err" /\ exit_cause = "Response"

C30_FullStreamErr == task_exit = "Err" /\ exit_cause \in {"Request", "Gossip"}

\* ========================================================================
\* Claims about WorkerNode::wait (SpecNodeWait)
\* ========================================================================
\* C31: every call of shutdown completes when the tasks stop on the shutdown
\* signal, also while another caller is in wait on the same node.
C31_ShutdownCompletes ==
    \A c \in NodeCallIds :
        (c \in ShutdownCalls)
            ~> (c \in DOMAIN node_calls /\ node_calls[c].pc \in {"returned", "panicked"})

\* wait holds the write lock over running tasks that nobody has signalled,
\* and a shutdown is queued for the lock
C31_ShutdownBehindWait ==
    /\ \E w \in DOMAIN wait_calls :
          wait_calls[w] = "joining" /\ internal_lock = WaitHolder(w)
    /\ \E c \in ShutdownCalls : node_calls[c].pc = "waiting"
    /\ handles # 0
    /\ handles \notin notified
    /\ \A t \in WorkerTasks : worker_tasks[handles][t] = "running"

\* ========================================================================
\* Further claims about the builder (SpecBuild)
\* ========================================================================
\* mined_transactions.push(tx.hash()) next to transactions.push(..): the hash
\* of a pool transaction is its place in the pool
mined_transactions == transactions

\* C32: the transactions of a block the builder returned are pairwise
\* distinct, and mined_transactions names each of them once, in block order.
C32_NoDuplicateInBuiltBlock ==
    pc \in {"built", "batch_built", "validated"} =>
        /\ \A i, j \in 1..Len(mined_transactions) :
              i # j => mined_transactions[i] # mined_transactions[j]
        /\ block[1].transactions = TxsOf(pool, mined_transactions)
        /\ \A i, j \in 1..Len(block[1].transactions) :
              i # j => block[1].transactions[i] # block[1].transactions[j]

\* a test iterator's build returned with two transactions of one sender,
\* after a transaction of that sender was yielded and marked invalid
C32_Witness ==
    /\ pc \in {"built", "batch_built"}
    /\ iter = "batch_test"
    /\ Len(transactions) = 2
    /\ pool[transactions[1]].sender = pool[transactions[2]].sender
    /\ marked # <<>>

\* ========================================================================
\* Further claims about validate_block (SpecValidate)
\* ========================================================================
\* the checks validate_block makes before validate_block_gas all pass
PassesUpToGas(b) ==
    /\ b.sealed_header.header.parent_hash \in DOMAIN Chain
    /\ validate_block_hash(b.sealed_header) = Ok
    /\ validate_transactions_root(b.transactions, b.sealed_header) = Ok
    /\ validate_against_parent_hash_number(b.sealed_header.header,
                                           Chain[b.sealed_header.header.parent_hash]) = Ok
    /\ validate_against_parent_timestamp(b.sealed_header.header,
                                         Chain[b.sealed_header.header.parent_hash]) = Ok
    /\ b.sealed_header.header.gas_limit = PeerGasCap

\* C33: an accepted block has at least one transaction and gas_used strictly
\* below gas_limit; a block that reaches the gas check is rejected with
\* HeaderMaxGasExceedsGasLimit when gas_used equals gas_limit and with
\* CalculateMaxPossibleGas when it has no transaction and gas_used is below.
C33_AcceptedHasTxAndGasBelowLimit ==
    pc = "validated" /\ builder = "block" /\ pool = <<>> =>
        LET b == block[1]
            h == b.sealed_header.header
        IN /\ result[1] = Ok => b.transactions # <<>> /\ h.gas_used < h.gas_limit
           /\ b.transactions = <<>> => result[1] # Ok
           /\ PassesUpToGas(b) /\ h.gas_used = h.gas_limit =>
                 result[1].err = "HeaderMaxGasExceedsGasLimit"
           /\ PassesUpToGas(b) /\ h.gas_used < h.gas_limit /\ b.transactions = <<>> =>
                 result[1].err = "CalculateMaxPossibleGas"

\* a block whose only flaw is that its transaction uses the whole gas limit
\* was rejected
C33_Witness ==
    /\ pc = "validated"
    /\ tampers = 0
    /\ block[1].transactions # <<>>
    /\ block[1].sealed_header.header.gas_used = block[1].sealed_header.header.gas_limit
    /\ result[1] # Ok

\* an untampered block without transactions was rejected
C33_EmptyRejected ==
    /\ pc = "validated"
    /\ tampers = 0
    /\ block[1].transactions = <<>>
    /\ result[1] # Ok

\* ========================================================================
\* Further claims about timestamps (SpecStamp)
\* ========================================================================
\* C34: the timestamp build_worker_block and build_batch give to what they
\* build is strictly greater than the parent's, for every clock reading and
\* every parent timestamp.
C34_TimestampAfterParent ==
    stamped # <<>> /\ stamped[1].builder \in {"build_worker_block", "build_batch"} =>
        stamped[1].timestamp > parent_timestamp_read

\* a worker block was stamped while the clock was behind the parent's timestamp
C34_ClockBehindParent ==
    /\ stamped # <<>>
    /\ stamped[1].builder = "build_worker_block"
    /\ clock_reading < parent_timestamp_read

\* ========================================================================
\* Further claims about the build loop (SpecBuild)
\* ========================================================================
\* The yielded transactions that fit in what the ones before them left of the
\* gas and byte caps, in the order they were yielded.
RECURSIVE FittingOf(_)
FittingOf(ys) ==
    IF ys = <<>> THEN <<>>
    ELSE LET before == FittingOf(SubSeq(ys, 1, Len(ys) - 1))
             tx == pool[ys[Len(ys)]]
         IN IF /\ GasOf(TxsOf(pool, before)) + tx.gas <= GasCap
               /\ SizeOf(TxsOf(pool, before)) + tx.size <= SizeCap
            THEN Append(before, ys[Len(ys)])
            ELSE before

\* C35: the build goes on after a transaction that does not fit: the block
\* holds, in the order they were yielded, exactly the yielded transactions
\* that fit in the remaining gas and byte capacity when they were yielded,
\* and the others were marked invalid.
C35_EveryFittingTxIncludedInOrder ==
    /\ transactions = FittingOf(yielded)
    /\ Len(transactions) + Len(marked) = Len(yielded)
    /\ \A k \in 1..Len(marked) : \E i \in 1..Len(yielded) : yielded[i] = marked[k]
    /\ pc \in {"built", "batch_built"} => block[1].transactions = TxsOf(pool, transactions)

\* a build over the pool's iterator returned a block holding a transaction
\* that was yielded after one that did not fit
C35_Witness ==
    /\ pc \in {"built", "batch_built"}
    /\ iter = "pool"
    /\ \E i, j \in 1..Len(yielded) :
          /\ i < j
          /\ \E k \in 1..Len(marked) : marked[k] = yielded[i]
          /\ \E k \in 1..Len(transactions) : transactions[k] = yielded[j]

\* ========================================================================
\* Claims about extra_data (SpecValidate)
\* ========================================================================
\* contents a peer can give to extra_data; 0 is the empty one
ExtraData == 0..2

\* C36: validate_block does not look at extra_data: a block whose sealed hash
\* is the hash of its header gets the result that every block gets which
\* differs from it in extra_data only (its hash recomputed), so an otherwise
\* valid block is accepted whatever its extra_data.
C36_ResultIndependentOfExtraData ==
    pc = "validated" /\ validate_block_hash(block[1].sealed_header) = Ok =>
        \A v \in ExtraData :
            validate_block(WithField(block[1], "extra_data", v), PeerSizeCap, PeerGasCap)
                = result[1]

\* a block carrying extra data and no flaw was accepted
C36_Witness ==
    /\ pc = "validated"
    /\ block[1].sealed_header.header.extra_data # 0
    /\ validate_block_hash(block[1].sealed_header) = Ok
    /\ result[1] = Ok

\* a block carrying extra data was rejected as it is without them
C36_RejectedAlike ==
    /\ pc = "validated"
    /\ block[1].sealed_header.header.extra_data # 0
    /\ validate_block_hash(block[1].sealed_header) = Ok
    /\ result[1] # Ok

\* ========================================================================
\* Claims about execute_consensus_output (SpecPayload)
\* ========================================================================
\* the blocks the returned call handed to the tree
Appended == SubSeq(tree_blocks, payload_args.tree_len + 1, Len(tree_blocks))

\* the header the n-th appended block has to build on
BuiltOn(n) == IF n = 1 THEN payload_args.parent_header ELSE Appended[n - 1].header

\* C37: a call that returned Ok appended one block per batch in batch order,
\* or one empty block for an output without batches; the blocks are numbered
\* on from the parent's number, each has the one before it (the first: the
\* given parent) as parent, the block of the batch at index i has difficulty
\* i, and the returned header is the last block's, which is canonical tip,
\* tracked head, safe and finalized.
C37_OneBlockPerBatchChained ==
    payload_pc = "idle" /\ payload_returned # <<>> =>
        LET k == payload_args.batches
        IN /\ Len(Appended) = (IF k = 0 THEN 1 ELSE k)
           /\ \A n \in 1..Len(Appended) :
                 /\ Appended[n].header.header.number
                       = payload_args.parent_header.header.number + n
                 /\ Appended[n].header.header.parent_hash = BuiltOn(n).hash
                 /\ Appended[n].header.hash = HashSlow(Appended[n].header.header)
                 /\ Appended[n].header.header.difficulty = n - 1
                 /\ Appended[n].body
                       = (IF k = 0 THEN 0 ELSE BatchDigest(payload_args.output, n))
           /\ payload_returned[1] = Appended[Len(Appended)].header
           /\ chain_info.canonical_tip = payload_returned[1].hash
           /\ chain_info.head = payload_returned[1]
           /\ chain_info.safe = payload_returned[1]
           /\ chain_info.finalized = payload_returned[1]

\* the second call returned after it executed an output of two batches
C37_Witness ==
    /\ payload_pc = "idle"
    /\ payload_returned # <<>>
    /\ payload_calls = 2
    /\ payload_args.batches = 2
    /\ Len(tree_blocks) > 2

\* a call returned after it executed an output without batches
C37_EmptyOutputExecuted ==
    /\ payload_pc = "idle"
    /\ payload_returned # <<>>
    /\ payload_args.batches = 0

\* ========================================================================
\* Claims about Primary::start_network (SpecBind)
\* ========================================================================
\* C38: start_network makes at most three attempts to bind: it returns on
\* the first attempt that succeeds and has panicked once three have failed.
C38_AtMostThreeBindAttempts ==
    /\ bind_attempts <= 3
    /\ Len(bind_errors) = 3 => bind_pc = "panicked"
    /\ bind_pc = "bound" => bind_attempts = Len(bind_errors) + 1

\* three attempts failed and start_network is about to make another
C38_FourthAttempt ==
    /\ bind_pc = "binding"
    /\ Len(bind_errors) = 3

\* the loop ends: no more than four attempts are ever made
C38_LoopBounded ==
    /\ bind_attempts <= BindTries + 1
    /\ bind_pc = "panicked" <=> Len(bind_errors) = BindTries + 1

====
